---- MODULE Spec2Model ----
(***************************************************************************)
(* Model of the AnalyticCore server: the SharePoint token broker (service  *)
(* mode and per-user mode), the paginated Graph list fetch, the list       *)
(* normaliser and the import / refresh endpoints.                          *)
(***************************************************************************)
EXTENDS Integers, Sequences, FiniteSets, TLC

\* ------------------------------------------------------------------ bounds
MaxTicks == 2
MaxCallers == 2
MaxTokens == 2
MaxUsers == 1
MaxProcs == 2
MaxUserTicks == 1
MaxUserTokens == 2
MaxPages == 3
MaxFetchTicks == 1
MaxItems == 2
MaxCols == 2
MaxFiles == 1
MaxUploads == 2
MaxNames == 2
MaxStatements == 3

\* ------------------------------------------------------- program constants
SafetyMarginSec == 300
MsPerSec == 1000
RefreshWindowMin == 5
SecPerMin == 60
KeyBytes == 32
ItemCap == 100000
DefaultTop == 5000
MaxFileSize == 10485760
MAX_ROWS == 5000

\* Granularity of the modelled clock (Date.now() is in milliseconds).
TickMs == 60 * 1000

NULL == <<>>

\* The k-th access token issued by the identity provider.
Tok(k) == <<"token", k>>

\* The k-th refresh token issued by the identity provider.
RTok(k) == <<"refresh", k>>

Callers == 1 .. MaxCallers

Users == 1 .. MaxUsers

Procs == 1 .. MaxProcs

\* Initialisation vectors: crypto.randomBytes(16) draws a fresh one per call;
\* the n-th encryption after k issued tokens gets a vector of its own.
FreshIV(k, n) == <<"iv", k, n>>

\* expires_in values (seconds) a user-mode token response may carry.
UserExpiresInValues == {300, 360}

\* expires_in values (seconds) the identity provider may answer with.
ExpiresInValues == {240, 300, 360, 420}

VARIABLES
    now,          \* Date.now()
    env,          \* process.env as read by the constructors
    tokenCache,   \* SharePointService.tokenCache
    cacheT,       \* history: time at which tokenCache was last written
    cacheE,       \* history: expires_in of the response last written to it
    issued,       \* number of tokens the identity provider has issued
    treq,         \* per caller: token requests sent by its current call
    tpc,          \* per caller: position inside getAccessToken
    tres,         \* per caller: outcome of the last getAccessToken call
    conn,         \* table sharepoint_connections: per user_id, its rows
    upc,          \* per user-mode request: position in its call chain
    ucall,        \* per user-mode request: the operation and its userId
    uloc,         \* per user-mode request: local variables of the call chain
    ucnt,         \* per user-mode request: remote calls and writes it made
    ures,         \* per user-mode request: outcome
    fpc,          \* list fetch: position in getListItems / getUserListItems
    fmode,        \* list fetch: "service" (getListItems) or "user"
    allItems,     \* list fetch: records accumulated, as runs <<page, count>>
    nextLink,     \* list fetch: the loop variable nextLink
    freqs,        \* list fetch: the Graph requests sent, in order
    served,       \* list fetch: the pages the source has answered, in order
    fres,         \* list fetch: outcome
    nitems,       \* normalizeListData: argument items
    ncolumns,     \* normalizeListData: argument columns
    npc,          \* normalizeListData: "idle" before the call, "done" after
    nout,         \* normalizeListData: the value returned
    files,        \* persistence: file records with their sheets and rows
    disk,         \* the uploads directory
    ipc,          \* import/refresh request: position in its handler
    ireq,         \* import/refresh request: route and body
    iloc,         \* import/refresh request: the handler's locals
    ires,         \* import/refresh request: the response sent
    icalls,       \* import/refresh request: persistence calls made so far
    ifetched,     \* import/refresh request: data rows each fetch yielded
    ipre,         \* import/refresh request: the file records when it arrived
    lpc,          \* list import: position in importList / importUserList
    lmode,        \* list import: "service" (importList) or "user"
    lstages,      \* list import: history of the stages entered
    lres,         \* list import: outcome
    dpc,          \* live database call: "idle" before the call, "done" after
    dcall,        \* live database call: the method and its arguments
    dres,         \* live database call: outcome
    pfile,        \* SQL parser: the dump file read
    ptable,       \* SQL parser: argument tableName of extractTableData
    ppc,          \* SQL parser: "idle" before a call, then the method called
    pnames,       \* SQL parser: outcome of extractTableNames
    pdata         \* SQL parser: outcome of extractTableData

tokenVars == <<tokenCache, cacheT, cacheE, treq, tpc, tres>>

userVars == <<conn, upc, ucall, uloc, ucnt, ures>>

fetchVars == <<fpc, fmode, allItems, nextLink, freqs, served, fres>>

normVars == <<nitems, ncolumns, npc, nout>>

importVars == <<files, disk, ipc, ireq, iloc, ires, icalls, ifetched, ipre>>

listVars == <<lpc, lmode, lstages, lres>>

dbVars == <<dpc, dcall, dres>>

parseVars == <<pfile, ptable, ppc, pnames, pdata>>

vars == <<now, env, issued, tokenVars, userVars, fetchVars, normVars, importVars,
          listVars, dbVars, parseVars>>

notToken == <<userVars, fetchVars, normVars, importVars, listVars, dbVars, parseVars>>

notUser == <<tokenVars, fetchVars, normVars, importVars, listVars, dbVars, parseVars>>

notFetch == <<userVars, normVars, importVars, listVars, dbVars, parseVars>>

notImport == <<now, env, issued, tokenVars, userVars, fetchVars, normVars,
               listVars, dbVars, parseVars>>

notList == <<now, env, issued, tokenVars, userVars, fetchVars, importVars, dbVars,
            parseVars>>

notDb == <<now, env, issued, tokenVars, userVars, fetchVars, normVars, importVars,
           listVars, parseVars>>

notParse == <<now, env, issued, tokenVars, userVars, fetchVars, normVars, importVars,
              listVars, dbVars>>

GoodEnv ==
    [tenantId |-> TRUE, clientId |-> TRUE, clientSecret |-> TRUE,
     redirectUri |-> TRUE, keyLen |-> KeyBytes]

EnvChoices ==
    { GoodEnv,
      [GoodEnv EXCEPT !.keyLen = KeyBytes - 1],
      [GoodEnv EXCEPT !.keyLen = 0],
      [GoodEnv EXCEPT !.tenantId = FALSE] }

\* ---------------------------------------------------------------- service
NoResult == [ok |-> FALSE, token |-> NULL, error |-> NULL]

Returned(t) == [ok |-> TRUE, token |-> t, error |-> NULL]

Thrown(e) == [ok |-> FALSE, token |-> NULL, error |-> e]

isConfigured ==
    env.tenantId /\ env.clientId /\ env.clientSecret /\ env.keyLen # 0

CacheValidInclusive == tokenCache.accessToken # NULL /\ tokenCache.expiresAt >= now

CacheValid == tokenCache.accessToken # NULL /\ tokenCache.expiresAt > now

CacheWriteTokenOnly(cache, access_token, expires_in) ==
    [accessToken |-> access_token,
     expiresAt |-> IF cache.accessToken = NULL
                   THEN now + ((expires_in - SafetyMarginSec) * MsPerSec)
                   ELSE cache.expiresAt]

\* The two assignments that cache a token response; no await lies between
\* them, so no other call runs in between.
CacheWrite(cache, access_token, expires_in) ==
    [accessToken |-> access_token,
     expiresAt |-> now + ((expires_in - SafetyMarginSec) * MsPerSec)]

\* getAccessToken up to its first suspension point (the token request).
GetAccessTokenCall(c) ==
    /\ tpc[c] = "idle"
    /\ IF ~isConfigured
       THEN /\ tpc' = [tpc EXCEPT ![c] = "done"]
            /\ tres' = [tres EXCEPT ![c] = Thrown("not configured")]
            /\ treq' = [treq EXCEPT ![c] = 0]
       ELSE IF CacheValid
       THEN /\ tpc' = [tpc EXCEPT ![c] = "done"]
            /\ tres' = [tres EXCEPT ![c] = Returned(tokenCache.accessToken)]
            /\ treq' = [treq EXCEPT ![c] = 0]
       ELSE /\ tpc' = [tpc EXCEPT ![c] = "waiting"]
            /\ tres' = [tres EXCEPT ![c] = NoResult]
            /\ treq' = [treq EXCEPT ![c] = 1]
    /\ UNCHANGED <<now, env, tokenCache, cacheT, cacheE, issued, notToken>>

\* The token request succeeds: the cache is overwritten and the token returned.
TokenResponseOk(c) ==
    /\ tpc[c] = "waiting"
    /\ issued < MaxTokens
    /\ \E expires_in \in ExpiresInValues :
          /\ tokenCache' = CacheWrite(tokenCache, Tok(issued + 1), expires_in)
          /\ cacheE' = expires_in
    /\ cacheT' = now
    /\ issued' = issued + 1
    /\ tpc' = [tpc EXCEPT ![c] = "done"]
    /\ tres' = [tres EXCEPT ![c] = Returned(Tok(issued + 1))]
    /\ UNCHANGED <<now, env, treq, notToken>>

TokenResponseFailClearsCache(c) ==
    /\ tpc[c] = "waiting"
    /\ tpc' = [tpc EXCEPT ![c] = "done"]
    /\ tres' = [tres EXCEPT ![c] = Thrown("Failed to authenticate with SharePoint")]
    /\ tokenCache' = [accessToken |-> NULL, expiresAt |-> NULL]
    /\ UNCHANGED <<now, env, cacheT, cacheE, issued, treq, notToken>>

\* The token request fails: the catch block rethrows, the cache is untouched.
TokenResponseFail(c) ==
    /\ tpc[c] = "waiting"
    /\ tpc' = [tpc EXCEPT ![c] = "done"]
    /\ tres' = [tres EXCEPT ![c] = Thrown("Failed to authenticate with SharePoint")]
    /\ UNCHANGED <<now, env, tokenCache, cacheT, cacheE, issued, treq, notToken>>

\* The caller consumes the outcome and may call again.
TokenCallReturn(c) ==
    /\ tpc[c] = "done"
    /\ tpc' = [tpc EXCEPT ![c] = "idle"]
    /\ tres' = [tres EXCEPT ![c] = NoResult]
    /\ UNCHANGED <<now, env, tokenCache, cacheT, cacheE, issued, treq, notToken>>

\* Time passes.
Advance(limit) ==
    /\ now < limit * TickMs
    /\ now' = now + TickMs
    /\ UNCHANGED <<env, issued, tokenVars, userVars, fetchVars, normVars, importVars,
                   listVars, dbVars, parseVars>>

TokenInit ==
    /\ tokenCache = [accessToken |-> NULL, expiresAt |-> NULL]
    /\ cacheT = 0
    /\ cacheE = 0
    /\ treq = [c \in Callers |-> 0]
    /\ tpc = [c \in Callers |-> "idle"]
    /\ tres = [c \in Callers |-> NoResult]

\* ---------------------------------------------------------------- vault
\* encrypt: throws without a key, createCipheriv throws on a key that is not
\* 32 bytes long; otherwise the result is "iv:ciphertext".
CanEncrypt == env.keyLen = KeyBytes

\* The error of an encrypt or decrypt call that cannot work: without a key the
\* guard of the method throws, with a key of another length createCipheriv
\* (createDecipheriv) throws.
VaultError ==
    IF env.keyLen = 0 THEN "Encryption key not configured"
    ELSE "Invalid key length"

\* encrypt(text): iv.toString('hex') + ':' + encrypted, where encrypted is the
\* aes-256-cbc cipher text of `text` under the configured key and the vector
\* drawn for this call. A text is the sequence of its pieces.
Encrypt(text, iv) == <<iv, <<":">>, <<"aes-256-cbc", iv, text>>>>

DecryptWithZeroIv(encryptedText) ==
    LET parts == SelectSeq(encryptedText, LAMBDA piece : piece # <<":">>)
    IN IF parts[2][2] = <<"iv", 0, 0>> THEN parts[2][3]
       ELSE <<"garbled", parts[2][3]>>

\* decrypt(encryptedText): split(':'), parts[0] is the vector and parts[1] the
\* cipher text; deciphering with the vector the text was enciphered with
\* gives the text back, with another one a garbled text.
Decrypt(encryptedText) ==
    LET parts == SelectSeq(encryptedText, LAMBDA piece : piece # <<":">>)
    IN IF parts[2][2] = parts[1] THEN parts[2][3]
       ELSE <<"garbled", parts[2][3]>>

\* --------------------------------------------------------------- user mode
\* .single(): the row when the query matches exactly one, null otherwise.
Single(rows) == IF Len(rows) = 1 THEN rows[1] ELSE NULL

WithoutConstraint(rows) == TRUE

\* UNIQUE(user_id): a row for the user is accepted when the user has none.
UniqueUserId(rows) == rows = <<>>

OAuthIsConfigured ==
    /\ env.clientId /\ env.clientSecret /\ env.keyLen # 0 /\ env.redirectUri
    /\ env.keyLen = KeyBytes

TokenOps == {"getUserAccessToken", "graphRequest", "graphRequestWithUserToken"}

UserOps == TokenOps \cup {"storeUserTokens", "disconnectUser"}

NoCall == [op |-> NULL, user |-> 0]

NoLocals == [connection |-> NULL, fresh |-> NULL, row |-> NULL, token |-> NULL]

NoCounts == [refresh |-> 0, writes |-> 0, graph |-> 0]

UNoResult == [ok |-> FALSE, value |-> NULL, error |-> NULL, status |-> 0]

UReturned(v) == [ok |-> TRUE, value |-> v, error |-> NULL, status |-> 0]

UThrown(e, st) == [ok |-> FALSE, value |-> NULL, error |-> e, status |-> st]

NotConnectedGeneric == "Failed to get access token"
NotConnected == "User has not connected their SharePoint account"

NeedsRefreshStrict(expiresAt, t) ==
    expiresAt < t + (RefreshWindowMin * SecPerMin * MsPerSec)

\* expiresAt <= new Date(now.getTime() + 5 * 60 * 1000)
NeedsRefresh(expiresAt, t) ==
    expiresAt <= t + (RefreshWindowMin * SecPerMin * MsPerSec)

\* storeUserTokens up to its first query: both tokens are encrypted and the
\* expiry computed before the select is sent.
StoreRow(accessToken, refreshToken, expiresIn, tenantId, iv1, iv2) ==
    [access_token |-> Encrypt(accessToken, iv1),
     refresh_token |-> Encrypt(refreshToken, iv2),
     expires_at |-> now + (expiresIn * MsPerSec),
     tenant_id |-> tenantId]

\* What follows getUserAccessToken returning `token` to request p: the plain
\* call is finished, a Graph call sends its request with that bearer token.
AfterToken(p, token, cnt) ==
    IF ucall[p].op = "getUserAccessToken"
    THEN /\ upc' = [upc EXCEPT ![p] = "done"]
         /\ ures' = [ures EXCEPT ![p] = UReturned(token)]
         /\ uloc' = [uloc EXCEPT ![p] = NoLocals]
         /\ ucnt' = [ucnt EXCEPT ![p] = cnt]
    ELSE /\ upc' = [upc EXCEPT ![p] = "graphWait"]
         /\ ures' = ures
         /\ uloc' = [uloc EXCEPT ![p] = [NoLocals EXCEPT !.token = token]]
         /\ ucnt' = [ucnt EXCEPT ![p] = [cnt EXCEPT !.graph = 1]]

\* An exception leaves the call chain of request p; its locals are dead.
UThrow(p, e, st) ==
    /\ upc' = [upc EXCEPT ![p] = "done"]
    /\ ures' = [ures EXCEPT ![p] = UThrown(e, st)]
    /\ uloc' = [uloc EXCEPT ![p] = NoLocals]

\* A request arrives. The three token operations start with the select of
\* getUserAccessToken; the OAuth callback has exchanged its code for a fresh
\* token set and calls storeUserTokens; a disconnect sends its delete.
UserCall(p) ==
    /\ upc[p] = "idle"
    /\ \E op \in UserOps, u \in Users :
          /\ ucall' = [ucall EXCEPT ![p] = [op |-> op, user |-> u]]
          /\ ucnt' = [ucnt EXCEPT ![p] = NoCounts]
          /\ IF op \in TokenOps
             THEN /\ upc' = [upc EXCEPT ![p] = "select"]
                  /\ ures' = [ures EXCEPT ![p] = UNoResult]
                  /\ uloc' = [uloc EXCEPT ![p] = NoLocals]
                  /\ UNCHANGED issued
             ELSE IF op = "disconnectUser"
             THEN /\ upc' = [upc EXCEPT ![p] = "delete"]
                  /\ ures' = [ures EXCEPT ![p] = UNoResult]
                  /\ uloc' = [uloc EXCEPT ![p] = NoLocals]
                  /\ UNCHANGED issued
             ELSE /\ issued < MaxUserTokens
                  /\ issued' = issued + 1
                  /\ \E expiresIn \in UserExpiresInValues :
                        LET fresh == [accessToken |-> Tok(issued + 1),
                                      refreshToken |-> RTok(issued + 1),
                                      expiresIn |-> expiresIn]
                        IN IF CanEncrypt
                           THEN /\ upc' = [upc EXCEPT ![p] = "storeSelect"]
                                /\ ures' = [ures EXCEPT ![p] = UNoResult]
                                /\ uloc' = [uloc EXCEPT ![p] =
                                      [NoLocals EXCEPT
                                         !.fresh = fresh,
                                         !.row = StoreRow(fresh.accessToken,
                                                    fresh.refreshToken, expiresIn,
                                                    NULL, FreshIV(issued + 1, 1),
                                                    FreshIV(issued + 1, 2))]]
                           ELSE UThrow(p, VaultError, 0)
    /\ UNCHANGED <<now, env, conn, notUser>>

\* getUserAccessToken: the select is answered and the code runs on to its next
\* suspension point.
GetUserAccessTokenSelect(p) ==
    /\ upc[p] = "select"
    /\ LET connection == Single(conn[ucall[p].user])
           loc == [uloc[p] EXCEPT !.connection = connection]
       IN IF connection = NULL
          THEN /\ UThrow(p, NotConnected, 0)
               /\ UNCHANGED ucnt
          ELSE IF NeedsRefresh(connection.expires_at, now)
          THEN IF ~CanEncrypt
               THEN /\ UThrow(p, VaultError, 0)
                    /\ UNCHANGED ucnt
               ELSE IF ~OAuthIsConfigured
               THEN /\ UThrow(p, "SharePoint OAuth is not properly configured", 0)
                    /\ UNCHANGED ucnt
               ELSE /\ upc' = [upc EXCEPT ![p] = "refreshWait"]
                    /\ uloc' = [uloc EXCEPT ![p] = loc]
                    /\ ucnt' = [ucnt EXCEPT ![p].refresh = 1]
                    /\ UNCHANGED ures
          ELSE IF CanEncrypt
          THEN AfterToken(p, Decrypt(connection.access_token), ucnt[p])
          ELSE /\ UThrow(p, VaultError, 0)
               /\ UNCHANGED ucnt
    /\ UNCHANGED <<now, env, issued, conn, ucall, notUser>>

\* refreshAccessToken is answered with a new token set (the refresh token is not
\* always rotated); storeUserTokens starts and sends its select.
RefreshResponseOk(p) ==
    /\ upc[p] = "refreshWait"
    /\ issued < MaxUserTokens
    /\ issued' = issued + 1
    /\ \E expires_in \in UserExpiresInValues, rotated \in BOOLEAN :
          LET old == Decrypt(uloc[p].connection.refresh_token)
              fresh == [accessToken |-> Tok(issued + 1),
                        refreshToken |-> IF rotated THEN RTok(issued + 1) ELSE old,
                        expiresIn |-> expires_in]
          IN uloc' = [uloc EXCEPT ![p].fresh = fresh,
                                  ![p].row = StoreRow(fresh.accessToken,
                                                fresh.refreshToken, expires_in,
                                                uloc[p].connection.tenant_id,
                                                FreshIV(issued + 1, 1),
                                                FreshIV(issued + 1, 2))]
    /\ upc' = [upc EXCEPT ![p] = "storeSelect"]
    /\ UNCHANGED <<now, env, conn, ucall, ucnt, ures, notUser>>

RefreshResponseFail(p) ==
    /\ upc[p] = "refreshWait"
    /\ UThrow(p, "Failed to refresh SharePoint token", 0)
    /\ UNCHANGED <<now, env, issued, conn, ucall, ucnt, notUser>>

\* storeUserTokens: the select for an existing connection is answered and the
\* update or the insert is sent.
StoreSelect(p) ==
    /\ upc[p] = "storeSelect"
    /\ upc' = [upc EXCEPT ![p] =
                 IF Single(conn[ucall[p].user]) # NULL THEN "storeUpdate"
                 ELSE "storeInsert"]
    /\ UNCHANGED <<now, env, issued, conn, ucall, uloc, ucnt, ures, notUser>>

\* What follows storeUserTokens returning to request p.
AfterStore(p) ==
    IF ucall[p].op = "storeUserTokens"
    THEN /\ upc' = [upc EXCEPT ![p] = "done"]
         /\ ures' = [ures EXCEPT ![p] = UReturned("data")]
         /\ uloc' = [uloc EXCEPT ![p] = NoLocals]
         /\ ucnt' = [ucnt EXCEPT ![p].writes = @ + 1]
    ELSE AfterToken(p, uloc[p].fresh.accessToken,
                    [ucnt[p] EXCEPT !.writes = @ + 1])

\* update ... eq(user_id).select().single(): every row of the user is
\* rewritten; anything but one row updated is an error.
StoreUpdate(p) ==
    /\ upc[p] = "storeUpdate"
    /\ conn' = [conn EXCEPT ![ucall[p].user] =
                  [k \in 1 .. Len(@) |-> uloc[p].row]]
    /\ IF Len(conn[ucall[p].user]) = 1
       THEN AfterStore(p)
       ELSE /\ UThrow(p, "Failed to store SharePoint connection", 0)
            /\ UNCHANGED ucnt
    /\ UNCHANGED <<now, env, issued, ucall, notUser>>

\* insert: the constraint of the table rejects a second row for the user.
StoreInsert(p) ==
    /\ upc[p] = "storeInsert"
    /\ IF UniqueUserId(conn[ucall[p].user])
       THEN /\ conn' = [conn EXCEPT ![ucall[p].user] = Append(@, uloc[p].row)]
            /\ AfterStore(p)
       ELSE /\ UThrow(p, "Failed to store SharePoint connection", 0)
            /\ UNCHANGED <<conn, ucnt>>
    /\ UNCHANGED <<now, env, issued, ucall, notUser>>

GraphResponseOk(p) ==
    /\ upc[p] = "graphWait"
    /\ upc' = [upc EXCEPT ![p] = "done"]
    /\ ures' = [ures EXCEPT ![p] = UReturned("data")]
    /\ uloc' = [uloc EXCEPT ![p] = NoLocals]
    /\ UNCHANGED <<now, env, issued, conn, ucall, ucnt, notUser>>

\* The Graph call is refused. SharePointOAuthService.graphRequest disconnects
\* the user on a 401 before rethrowing; graphRequestWithUserToken only rethrows.
GraphResponseError(p) ==
    /\ upc[p] = "graphWait"
    /\ \E status \in {401, 500} :
          IF status = 401 /\ ucall[p].op = "graphRequest"
          THEN /\ upc' = [upc EXCEPT ![p] = "delete"]
               /\ ures' = [ures EXCEPT ![p] = UThrown("graph error", status)]
               /\ uloc' = [uloc EXCEPT ![p] = NoLocals]
          ELSE UThrow(p, "graph error", status)
    /\ UNCHANGED <<now, env, issued, conn, ucall, ucnt, notUser>>

\* disconnectUser: the delete is executed; graphRequest then rethrows.
DisconnectDelete(p) ==
    /\ upc[p] = "delete"
    /\ conn' = [conn EXCEPT ![ucall[p].user] = NULL]
    /\ upc' = [upc EXCEPT ![p] = "done"]
    /\ ures' = [ures EXCEPT ![p] =
                  IF ucall[p].op = "disconnectUser" THEN UReturned(TRUE) ELSE ures[p]]
    /\ ucnt' = [ucnt EXCEPT ![p].writes = @ + 1]
    /\ UNCHANGED <<now, env, issued, ucall, uloc, notUser>>

UserReturn(p) ==
    /\ upc[p] = "done"
    /\ upc' = [upc EXCEPT ![p] = "idle"]
    /\ ucall' = [ucall EXCEPT ![p] = NoCall]
    /\ uloc' = [uloc EXCEPT ![p] = NoLocals]
    /\ ucnt' = [ucnt EXCEPT ![p] = NoCounts]
    /\ ures' = [ures EXCEPT ![p] = UNoResult]
    /\ UNCHANGED <<now, env, issued, conn, notUser>>

\* A connection stored by an earlier run of the server, at time 0.
StoredBefore(expiresIn) ==
    [access_token |-> Encrypt(Tok(0), FreshIV(0, 1)),
     refresh_token |-> Encrypt(RTok(0), FreshIV(0, 2)),
     expires_at |-> expiresIn * MsPerSec,
     tenant_id |-> NULL]

UserIdle ==
    /\ upc = [p \in Procs |-> "idle"]
    /\ ucall = [p \in Procs |-> NoCall]
    /\ uloc = [p \in Procs |-> NoLocals]
    /\ ucnt = [p \in Procs |-> NoCounts]
    /\ ures = [p \in Procs |-> UNoResult]

UserInit ==
    /\ UserIdle
    /\ conn \in [Users -> {NULL} \cup { <<StoredBefore(360)>> }]

\* -------------------------------------------------------------- list fetch
\* Page sizes the source may answer with.
PageSizes == {0, 2, 30000, 50000}

\* The caller slot getListItems uses for its getAccessToken calls.
FetchCaller == 1

\* The options a caller may pass: the defaults, or all three set.
FetchOptions ==
    { [top |-> DefaultTop, select |-> NULL, filter |-> NULL],
      [top |-> 2, select |-> <<"Title">>, filter |-> <<"Title eq 'a'">>] }

\* `/sites/{siteId}/lists/{listId}/items?expand=fields&$top={top}` followed by
\* &$select= and &$filter= when given: a path, not starting with "http".
BuiltEndpoint(options) ==
    [http |-> FALSE,
     path |-> "/sites/{siteId}/lists/{listId}/items",
     query |-> <<"expand=fields", <<"$top", options.top>>>>
                \o (IF options.select # NULL
                    THEN << <<"$select", options.select>> >> ELSE <<>>)
                \o (IF options.filter # NULL
                    THEN << <<"$filter", <<"encodeURIComponent", options.filter>>>> >>
                    ELSE <<>>)]

\* The @odata.nextLink of page k: a fully qualified URL carrying a skip token.
NextLinkOf(k) ==
    [http |-> TRUE,
     path |-> "https://graph.microsoft.com/v1.0/sites/{siteId}/lists/{listId}/items",
     query |-> << <<"$skiptoken", k>> >>]

\* The request one loop iteration sends: a link that starts with "http" is
\* requested as it is with axios.get, anything else goes through graphRequest
\* (graphRequestWithUserToken in user mode), which prefixes the Graph base.
RequestAlwaysPrefixed(mode, link, token) ==
    [via |-> IF mode = "service" THEN "graphRequest"
             ELSE "graphRequestWithUserToken",
     url |-> <<"https://graph.microsoft.com/v1.0", link>>,
     bearer |-> token]

Request(mode, link, token) ==
    IF link.http
    THEN [via |-> "axios.get", url |-> link, bearer |-> token]
    ELSE [via |-> IF mode = "service" THEN "graphRequest"
                  ELSE "graphRequestWithUserToken",
          url |-> <<"https://graph.microsoft.com/v1.0", link>>,
          bearer |-> token]

RECURSIVE Count(_)
Count(items) ==
    IF items = <<>> THEN 0 ELSE Head(items)[2] + Count(Tail(items))

\* allItems.concat(data.value || [])
Concat(items, page, size) ==
    IF size = 0 THEN items ELSE Append(items, <<page, size>>)

FNoResult == [ok |-> FALSE, items |-> NULL, error |-> NULL]

ReturnPartial(items, e) == [ok |-> TRUE, items |-> items, error |-> NULL]

\* A failed request leaves the loop through the catch block, which rethrows.
Rethrow(items, e) == [ok |-> FALSE, items |-> NULL, error |-> e]

ReachedCap(items) == Count(items) >= ItemCap

\* The head of a loop iteration in service mode: both branches await
\* getAccessToken before the request is sent.
\* getListItems / getUserListItems is called. The token handed to
\* getUserListItems is one getUserAccessToken returns at that moment without
\* a refresh: it expires later than the refresh window from now (its third
\* component is its expiry).
FetchStart ==
    /\ fpc = "idle"
    /\ \E mode \in {"service", "user"}, options \in FetchOptions :
          /\ fmode' = mode
          /\ nextLink' = BuiltEndpoint(options)
          /\ IF mode = "service"
             THEN fpc' = "token" /\ freqs' = <<>>
             ELSE /\ fpc' = "pageWait"
                  /\ freqs' = <<Request(mode, BuiltEndpoint(options),
                                        <<"token", "user",
                                          now + (RefreshWindowMin * SecPerMin * MsPerSec)
                                              + TickMs>>)>>
    /\ allItems' = <<>>
    /\ served' = <<>>
    /\ fres' = FNoResult
    /\ UNCHANGED <<now, env, issued, tokenVars, notFetch>>

FetchGetAccessToken ==
    /\ fpc = "token"
    /\ GetAccessTokenCall(FetchCaller)

\* getAccessToken has returned or thrown.
FetchTokenDone ==
    /\ fpc = "token"
    /\ tpc[FetchCaller] = "done"
    /\ IF tres[FetchCaller].ok
       THEN /\ fpc' = "pageWait"
            /\ freqs' = Append(freqs, Request(fmode, nextLink,
                                               tres[FetchCaller].token))
            /\ UNCHANGED fres
       ELSE /\ fpc' = "done"
            /\ fres' = Rethrow(allItems, tres[FetchCaller].error)
            /\ UNCHANGED freqs
    /\ tpc' = [tpc EXCEPT ![FetchCaller] = "idle"]
    /\ tres' = [tres EXCEPT ![FetchCaller] = NoResult]
    /\ UNCHANGED <<now, env, issued, tokenCache, cacheT, cacheE, treq,
                   fmode, allItems, nextLink, served, notFetch>>

\* A page arrives: its records are appended, the next link taken over, and the
\* loop ends without a next link or at the 100k safety limit.
PageResponseOk ==
    /\ fpc = "pageWait"
    /\ Len(served) < MaxPages
    /\ \E size \in PageSizes, more \in BOOLEAN :
          LET k == Len(served) + 1
              items == Concat(allItems, k, size)
              link == IF more THEN NextLinkOf(k) ELSE NULL
          IN /\ served' = Append(served, [size |-> size, next |-> link])
             /\ allItems' = items
             /\ nextLink' = link
             /\ IF link = NULL \/ ReachedCap(items)
                THEN /\ fpc' = "done"
                     /\ fres' = [ok |-> TRUE, items |-> items, error |-> NULL]
                     /\ UNCHANGED freqs
                ELSE IF fmode = "service"
                THEN fpc' = "token" /\ UNCHANGED <<fres, freqs>>
                ELSE /\ fpc' = "pageWait"
                     /\ freqs' = Append(freqs, Request(fmode, link,
                                                        freqs[1].bearer))
                     /\ UNCHANGED fres
    /\ UNCHANGED <<now, env, issued, tokenVars, fmode, notFetch>>

\* The request fails: transport error or a non-2xx answer.
PageResponseFail ==
    /\ fpc = "pageWait"
    /\ \E status \in {0, 401, 500} :
          fres' = Rethrow(allItems, <<"request failed", status>>)
    /\ fpc' = "done"
    /\ UNCHANGED <<now, env, issued, tokenVars, fmode, allItems, nextLink,
                   freqs, served, notFetch>>

FetchReturn ==
    /\ fpc = "done"
    /\ fpc' = "idle"
    /\ fres' = FNoResult
    /\ allItems' = <<>>
    /\ nextLink' = NULL
    /\ freqs' = <<>>
    /\ served' = <<>>
    /\ UNCHANGED <<now, env, issued, tokenVars, fmode, notFetch>>

FetchInit ==
    /\ fpc = "idle"
    /\ fmode = "service"
    /\ allItems = <<>>
    /\ nextLink = NULL
    /\ freqs = <<>>
    /\ served = <<>>
    /\ fres = FNoResult

\* ------------------------------------------------------ normalizeListData
\* JavaScript values, tagged with their kind. Strings are sequences of
\* characters.
Undefined == [t |-> "undefined", v |-> <<>>]

Null == [t |-> "null", v |-> <<>>]

Str(chars) == [t |-> "string", v |-> chars]

Num(n) == [t |-> "number", v |-> n]

Bool(b) == [t |-> "boolean", v |-> b]

\* A plain object; a property it does not carry reads as undefined.
Obj(lookup, email) ==
    [t |-> "object", v |-> [LookupValue |-> lookup, Email |-> email]]

Arr(elems) == [t |-> "array", v |-> elems]

DigitChar == <<"0", "1", "2", "3", "4", "5", "6", "7", "8", "9">>

\* ToBoolean
Truthy(x) ==
    CASE x.t \in {"undefined", "null"} -> FALSE
      [] x.t = "string" -> x.v # <<>>
      [] x.t = "number" -> x.v # 0
      [] x.t = "boolean" -> x.v
      [] OTHER -> TRUE

\* typeof value === 'object'
TypeofObject(x) == x.t \in {"object", "array", "null"}

\* value.LookupValue, value.Email
Prop(x, name) == IF x.t = "object" THEN x.v[name] ELSE Undefined

RECURSIVE NatToString(_)
NatToString(n) ==
    IF n < 10 THEN <<DigitChar[n + 1]>>
    ELSE NatToString(n \div 10) \o <<DigitChar[(n % 10) + 1]>>

RECURSIVE StringOf(_), Join(_, _)
\* String(value)
StringOf(x) ==
    CASE x.t = "string" -> x.v
      [] x.t = "number" -> NatToString(x.v)
      [] x.t = "boolean" -> IF x.v THEN <<"t", "r", "u", "e">>
                            ELSE <<"f", "a", "l", "s", "e">>
      [] x.t = "null" -> <<"n", "u", "l", "l">>
      [] x.t = "undefined" -> <<"u", "n", "d", "e", "f", "i", "n", "e", "d">>
      [] x.t = "array" -> Join(x.v, <<",">>)
      [] OTHER -> <<"[", "o", "b", "j", "e", "c", "t", " ",
                    "O", "b", "j", "e", "c", "t", "]">>

\* Array.prototype.join: null and undefined elements become the empty string.
Join(elems, sep) ==
    IF elems = <<>> THEN <<>>
    ELSE LET h == IF Head(elems).t \in {"null", "undefined"} THEN <<>>
                  ELSE StringOf(Head(elems))
         IN IF Len(elems) = 1 THEN h
            ELSE h \o sep \o Join(Tail(elems), sep)

\* value.match(/^\d{4}-\d{2}-\d{2}T/)
MatchesDatePrefix(chars) ==
    /\ Len(chars) >= 11
    /\ \A i \in {1, 2, 3, 4, 6, 7, 9, 10} : chars[i] \in { DigitChar[d] : d \in 1 .. 10 }
    /\ chars[5] = "-" /\ chars[8] = "-" /\ chars[11] = "T"

\* new Date(value).toLocaleString(): a rendering that depends on the locale
\* and time zone of the host, kept as a function of the text it was made from.
ToLocaleString(chars) == Str(<<"Date.toLocaleString", chars>>)

\* The cell for one field value.
Coerce(value) ==
    IF value.t \in {"null", "undefined"} THEN Str(<<>>)
    ELSE IF TypeofObject(value) /\ Truthy(Prop(value, "LookupValue"))
    THEN Prop(value, "LookupValue")
    ELSE IF TypeofObject(value) /\ Truthy(Prop(value, "Email"))
    THEN Prop(value, "Email")
    ELSE IF value.t = "array" THEN Str(Join(value.v, <<";", " ">>))
    ELSE IF value.t = "string" /\ MatchesDatePrefix(value.v)
    THEN ToLocaleString(value.v)
    ELSE Str(StringOf(value))

\* fields[colName] with fields = item.fields || {}
FieldOf(item, colName) ==
    IF item.hasFields /\ colName \in DOMAIN item.fields
    THEN item.fields[colName] ELSE Undefined

HeadersOfDisplayNamed(columns) ==
    LET named == SelectSeq(columns, LAMBDA col : Truthy(col.displayName))
    IN [j \in 1 .. Len(named) |-> named[j].displayName]

\* columns.map(col => col.displayName || col.name)
HeadersOf(columns) ==
    [j \in 1 .. Len(columns) |->
        IF Truthy(columns[j].displayName) THEN columns[j].displayName
        ELSE columns[j].name]

\* columnNames.map(colName => ...) for one item
RowOf(item, columns) ==
    [j \in 1 .. Len(columns) |-> Coerce(FieldOf(item, columns[j].name))]

normalizeListData(items, columns) ==
    IF items = <<>> THEN <<>>
    ELSE <<HeadersOf(columns)>> \o [i \in 1 .. Len(items) |-> RowOf(items[i], columns)]

\* The field values an item may carry.
Values ==
    << Undefined, Null,
       Obj(Str(<<"X">>), Undefined), Obj(Str(<<>>), Undefined),
       Obj(Undefined, Str(<<"a", "@", "b">>)), Obj(Undefined, Str(<<>>)),
       Obj(Str(<<"X">>), Str(<<"a", "@", "b">>)),
       Obj(Str(<<>>), Str(<<"a", "@", "b">>)),
       Obj(Undefined, Undefined),
       Arr(<<Str(<<"a">>), Str(<<"b">>)>>), Arr(<<>>),
       Str(<<"2", "0", "2", "4", "-", "0", "1", "-", "0", "5", "T",
             "1", "0", ":", "0", "0", ":", "0", "0">>),
       Str(<<"2", "0", "2", "4">>), Str(<<>>),
       Num(42), Num(0), Bool(TRUE) >>

\* Column descriptors as getListColumns returns them: with a display name,
\* without one, with an empty one.
ColumnPool ==
    << [name |-> Str(<<"T", "i", "t", "l", "e">>), displayName |-> Str(<<"N", "a", "m", "e">>)],
       [name |-> Str(<<"A", "u", "t", "h", "o", "r">>), displayName |-> Undefined],
       [name |-> Str(<<"T", "a", "g", "s">>), displayName |-> Str(<<>>)],
       [name |-> Str(<<"D", "u", "e">>), displayName |-> Str(<<"D", "u", "e", " ", "b", "y">>)] >>

\* An item whose fields take the values from offset o on, column by column.
ItemFrom(o, columns) ==
    [hasFields |-> TRUE,
     fields |-> [name \in {columns[j].name : j \in 1 .. Len(columns)} |->
                   LET j == CHOOSE j \in 1 .. Len(columns) : columns[j].name = name
                   IN Values[((o + j - 2) % Len(Values)) + 1]]]

NormalizeCall ==
    /\ npc = "idle"
    /\ npc' = "done"
    /\ nout' = normalizeListData(nitems, ncolumns)
    /\ UNCHANGED <<now, env, issued, tokenVars, userVars, fetchVars,
                   nitems, ncolumns, importVars, listVars, dbVars, parseVars>>

NormIdle ==
    /\ nitems = <<>>
    /\ ncolumns = <<>>
    /\ npc = "idle"
    /\ nout = <<>>

NormInit ==
    /\ \E c \in 0 .. MaxCols : ncolumns = SubSeq(ColumnPool, 1, c)
    /\ \E n \in 0 .. MaxItems :
          nitems \in [1 .. n ->
                        { ItemFrom(o, ncolumns) : o \in 1 .. Len(Values) }
                            \cup { [hasFields |-> FALSE, fields |-> <<>>] }]
    /\ npc = "idle"
    /\ nout = <<>>

\* ------------------------------------------------------------ list import
\* importList (service account) and importUserList (per-user token): the
\* columns are fetched, then the items, then both are normalized. The stages
\* entered are recorded in lstages; ncolumns, nitems and nout hold the locals
\* columns, items and normalizedData.
Stages == <<"FetchingMetadata", "FetchingData", "Normalizing">>

NoListResult == [ok |-> FALSE, state |-> "none", error |-> "", rowCount |-> 0,
                 columnCount |-> 0]

Swallowed(error) ==
    [ok |-> TRUE, state |-> "Done", error |-> error, rowCount |-> 0, columnCount |-> 0]

\* catch (error) { console.error(...); throw error; }
Rethrown(error) ==
    [ok |-> FALSE, state |-> "Failed", error |-> error, rowCount |-> 0,
     columnCount |-> 0]

\* The call runs to its first await, the request for the columns.
ImportListCall ==
    /\ lpc = "idle"
    /\ \E mode \in {"service", "user"} : lmode' = mode
    /\ lpc' = "columns"
    /\ lstages' = <<Stages[1]>>
    /\ lres' = NoListResult
    /\ ncolumns' = <<>>
    /\ nitems' = <<>>
    /\ nout' = <<>>
    /\ UNCHANGED <<npc, notList>>

\* getListColumns / getUserListColumns resolves or rejects; on success the
\* call goes on to the request for the items.
ColumnsResponse ==
    /\ lpc = "columns"
    /\ \E ok \in BOOLEAN, c \in 0 .. MaxCols :
          IF ok
          THEN /\ ncolumns' = SubSeq(ColumnPool, 1, c)
               /\ lpc' = "items"
               /\ lstages' = Append(lstages, Stages[2])
               /\ UNCHANGED lres
          ELSE /\ c = 0
               /\ lpc' = "done"
               /\ lres' = Rethrown(IF lmode = "service" THEN "getListColumns failed"
                                   ELSE "getUserListColumns failed")
               /\ UNCHANGED <<ncolumns, lstages>>
    /\ UNCHANGED <<lmode, nitems, nout, npc, notList>>

\* getListItems / getUserListItems resolves or rejects; on success the items
\* are normalized and the result is returned in the same turn.
ItemsResponse ==
    /\ lpc = "items"
    /\ lpc' = "done"
    /\ \E ok \in BOOLEAN, n \in 0 .. MaxItems :
       \E items \in [1 .. n -> { ItemFrom(o, ncolumns) : o \in 1 .. Len(Values) }
                                  \cup { [hasFields |-> FALSE, fields |-> <<>>] }] :
          IF ok
          THEN /\ nitems' = items
               /\ nout' = normalizeListData(items, ncolumns)
               /\ lstages' = Append(lstages, Stages[3])
               /\ lres' = [ok |-> TRUE, state |-> "Done", error |-> "",
                           rowCount |-> Len(normalizeListData(items, ncolumns)),
                           columnCount |-> Len(ncolumns)]
          ELSE /\ n = 0
               /\ lres' = Rethrown(IF lmode = "service" THEN "getListItems failed"
                                   ELSE "getUserListItems failed")
               /\ UNCHANGED <<nitems, nout, lstages>>
    /\ UNCHANGED <<lmode, ncolumns, npc, notList>>

\* The caller has the outcome; the next import may be called.
ListReturn ==
    /\ lpc = "done"
    /\ lpc' = "idle"
    /\ UNCHANGED <<lmode, lstages, lres, normVars, notList>>

ListIdle ==
    /\ lpc = "idle"
    /\ lmode = "service"
    /\ lstages = <<>>
    /\ lres = NoListResult

\* ------------------------------------------------------------- SQL parser
\* AST nodes as the parser returns them for the statements of a dump; a
\* statement the parser rejects is a node of type "unparseable".
CreateNode(table, columns) ==
    [type |-> "create", table |-> table, columns |-> columns, values |-> <<>>]

InsertNode(table, columns, values) ==
    [type |-> "insert", table |-> table, columns |-> columns, values |-> values]

Unparseable ==
    [type |-> "unparseable", table |-> <<>>, columns |-> <<>>, values |-> <<>>]

RECURSIVE PadRow(_, _)
\* while (row.length < expectedColumns) row.push(null)
PadRow(row, expectedColumns) ==
    IF Len(row) < expectedColumns
    THEN PadRow(Append(row, Null), expectedColumns)
    ELSE row

extractValuesFromInsert(values, expectedColumns) ==
    [k \in 1 .. Len(values) |-> PadRow(values[k], expectedColumns)]

\* One statement of the loop of extractTableData, on the accumulator
\* [columns, rows].
ExtractStep(acc, node, tableName) ==
    IF node.type = "create" /\ node.table = tableName /\ node.columns # <<>>
    THEN [acc EXCEPT !.columns = node.columns]
    ELSE IF node.type = "insert" /\ node.table = tableName
    THEN LET columns == IF acc.columns = <<>> /\ node.columns # <<>>
                        THEN node.columns ELSE acc.columns
         IN [columns |-> columns,
             rows |-> acc.rows \o extractValuesFromInsert(node.values, Len(columns))]
    ELSE acc

RECURSIVE ExtractLoop(_, _, _)
BreakOnParseError(acc, rest, tableName) == acc

\* catch (parseError) { continue; }
OnParseError(acc, rest, tableName) == ExtractLoop(acc, rest, tableName)

ExtractLoop(acc, statements, tableName) ==
    IF statements = <<>> THEN acc
    ELSE IF Head(statements).type = "unparseable"
    THEN OnParseError(acc, Tail(statements), tableName)
    ELSE ExtractLoop(ExtractStep(acc, Head(statements), tableName),
                     Tail(statements), tableName)

\* extractTableData(filePath, tableName). readSqlFile throws on a file over
\* the size limit and on a blank one; without column names the columns are
\* `Column${i + 1}`.
extractTableData(file, tableName) ==
    IF file.size > MaxFileSize \/ file.blank
    THEN [ok |-> FALSE, headers |-> <<>>, rows |-> <<>>,
          error |-> "Failed to extract data from table"]
    ELSE LET acc == ExtractLoop([columns |-> <<>>, rows |-> <<>>],
                                file.statements, tableName)
             columns == IF acc.columns = <<>> /\ acc.rows # <<>>
                        THEN [i \in 1 .. Len(acc.rows[1]) |-> <<"Column", i>>]
                        ELSE acc.columns
         IN [ok |-> TRUE, headers |-> columns,
             rows |-> <<columns>> \o acc.rows, error |-> ""]

\* Table names, as sequences of characters.
T1 == <<"t", "1">>

T2 == <<"t", "_", "2">>

TBad == <<"t", ";">>

\* Array.from(tables).sort() for the table names of the dumps: "t1" sorts
\* before "t_2".
SortNames(tables) ==
    (IF T1 \in tables THEN <<T1>> ELSE <<>>) \o (IF T2 \in tables THEN <<T2>> ELSE <<>>)

\* extractTableNames(filePath): the tables named by the CREATE TABLE and
\* INSERT INTO statements the parser accepts.
extractTableNames(file) ==
    IF file.size > MaxFileSize \/ file.blank
    THEN [ok |-> FALSE, names |-> <<>>, error |-> "Failed to parse SQL file"]
    ELSE [ok |-> TRUE,
          names |-> SortNames({ file.statements[k].table :
                                   k \in { j \in 1 .. Len(file.statements) :
                                             file.statements[j].type \in {"create", "insert"} } }),
          error |-> ""]

\* The statements a dump may hold.
StatementPool ==
    { Unparseable,
      CreateNode(T1, <<"a", "b">>),
      CreateNode(T2, <<"c">>),
      InsertNode(T1, <<>>, << <<Num(1), Num(2)>> >>),
      InsertNode(T1, <<>>, << <<Num(3)>>, <<Num(4), Num(5), Num(6)>> >>),
      InsertNode(T1, <<"b", "a">>, << <<Num(7), Null>> >>),
      InsertNode(T2, <<>>, << <<Num(8)>> >>) }

\* The parser is called on a dump.
ExtractTableNamesCall ==
    /\ ppc = "idle"
    /\ ppc' = "extractTableNames"
    /\ pnames' = extractTableNames(pfile)
    /\ UNCHANGED <<pfile, ptable, pdata, notParse>>

ExtractTableDataCall ==
    /\ ppc = "idle"
    /\ ppc' = "extractTableData"
    /\ pdata' = extractTableData(pfile, ptable)
    /\ UNCHANGED <<pfile, ptable, pnames, notParse>>

ParseIdle ==
    /\ pfile = [size |-> 0, blank |-> TRUE, statements |-> <<>>]
    /\ ptable = T1
    /\ ppc = "idle"
    /\ pnames = [ok |-> FALSE, names |-> <<>>, error |-> ""]
    /\ pdata = [ok |-> FALSE, headers |-> <<>>, rows |-> <<>>, error |-> ""]

\* The dump files a user may upload.
DumpChoices ==
    { [size |-> 2048, blank |-> FALSE,
       statements |-> <<CreateNode(T1, <<"a", "b">>)>>],
      [size |-> 2048, blank |-> FALSE,
       statements |-> <<CreateNode(T1, <<"a", "b">>),
                        InsertNode(T1, <<>>, << <<Num(1), Num(2)>> >>)>>],
      [size |-> 2048, blank |-> FALSE,
       statements |-> <<Unparseable,
                        InsertNode(T1, <<>>, << <<Num(1)>>, <<Num(2), Num(3)>> >>),
                        CreateNode(T2, <<"c">>)>>],
      [size |-> 2048, blank |-> TRUE, statements |-> <<>>],
      [size |-> MaxFileSize + 1, blank |-> FALSE,
       statements |-> <<CreateNode(T1, <<"a">>)>>] }

\* ------------------------------------------------------ DbConnectorService
\* a-zA-Z
Letters ==
    {"a", "b", "c", "d", "e", "f", "g", "h", "i", "j", "k", "l", "m",
     "n", "o", "p", "q", "r", "s", "t", "u", "v", "w", "x", "y", "z",
     "A", "B", "C", "D", "E", "F", "G", "H", "I", "J", "K", "L", "M",
     "N", "O", "P", "Q", "R", "S", "T", "U", "V", "W", "X", "Y", "Z"}

AcceptsAnyName(tableName) == TRUE

\* /^[a-zA-Z0-9_-]+$/.test(tableName): an absent name is tested as the text
\* "undefined".
isValidTableName(tableName) ==
    LET text == IF tableName = NULL
                THEN <<"u", "n", "d", "e", "f", "i", "n", "e", "d">>
                ELSE tableName
    IN /\ Len(text) >= 1
       /\ \A k \in 1 .. Len(text) :
             text[k] \in Letters \cup { DigitChar[d] : d \in 1 .. 10 } \cup {"_", "-"}

sanitizeTimeoutFirst(message) ==
    LET includes(w) == \E k \in 1 .. Len(message) : message[k] = w
    IN IF includes("ETIMEDOUT") \/ includes("timeout")
       THEN "Connection timeout. Please check your network and database availability."
       ELSE IF includes("ECONNREFUSED")
       THEN "Unable to connect to database server. Please check host and port."
       ELSE IF includes("ER_ACCESS_DENIED_ERROR") \/ includes("authentication failed")
       THEN "Authentication failed. Please check username and password."
       ELSE IF includes("Unknown database")
       THEN "Database not found. Please check database name."
       ELSE "Database operation failed. Please check your connection settings."

\* message.includes(...) on an error message given as its words.
sanitizeErrorMessage(message) ==
    LET includes(w) == \E k \in 1 .. Len(message) : message[k] = w
    IN IF includes("ECONNREFUSED")
       THEN "Unable to connect to database server. Please check host and port."
       ELSE IF includes("ER_ACCESS_DENIED_ERROR") \/ includes("authentication failed")
       THEN "Authentication failed. Please check username and password."
       ELSE IF includes("Unknown database")
       THEN "Database not found. Please check database name."
       ELSE IF includes("ETIMEDOUT") \/ includes("timeout")
       THEN "Connection timeout. Please check your network and database availability."
       ELSE "Database operation failed. Please check your connection settings."

\* What the database driver answers to connect + SELECT * ... LIMIT: the
\* result set, or an error.
DbAnswers ==
    { [ok |-> TRUE, fields |-> <<"id", "name">>, rows |-> <<>>, message |-> <<>>],
      [ok |-> TRUE, fields |-> <<"id", "name">>,
       rows |-> << <<Num(1), Str(<<"x">>)>>, <<Num(2), Null>> >>, message |-> <<>>],
      [ok |-> FALSE, fields |-> <<>>, rows |-> <<>>,
       message |-> <<"connect", "ECONNREFUSED", "10.0.0.1:3306">>] }

\* getTableData(config, tableName) given the driver's answer.
getTableData(engine, tableName, answer) ==
    LET thrown(message) ==
            [ok |-> FALSE, headers |-> <<>>, rows |-> <<>>, cause |-> message,
             error |-> sanitizeErrorMessage(message)]
    IN IF ~isValidTableName(tableName)
       THEN thrown(<<"Invalid table name">>)
       ELSE IF engine \notin {"mysql", "postgresql"}
       THEN thrown(<<"Unsupported database engine", engine>>)
       ELSE IF ~answer.ok
       THEN thrown(answer.message)
       ELSE IF answer.rows = <<>>
       THEN [ok |-> TRUE, headers |-> <<>>, rows |-> <<>>, cause |-> <<>>, error |-> ""]
       ELSE [ok |-> TRUE, headers |-> answer.fields,
             rows |-> <<answer.fields>> \o answer.rows, cause |-> <<>>, error |-> ""]

\* ---------------------------------------------------- live database calls
\* Math.min(limit, this.MAX_ROWS)
RowLimit(limit) == IF limit < MAX_ROWS THEN limit ELSE MAX_ROWS

\* The rows a table of n rows yields to SELECT * ... LIMIT rowLimit.
Select(n, rowLimit) ==
    [k \in 1 .. (IF n < rowLimit THEN n ELSE rowLimit) |-> <<Num(k)>>]

\* error.message of what the drivers throw, with the host, user and database
\* texts they carry.
UnderlyingErrors ==
    { <<"connect", "ECONNREFUSED", "10.0.0.1:3306">>,
      <<"connect", "ECONNREFUSED", "db.internal:5432">>,
      <<"ER_ACCESS_DENIED_ERROR", "Access denied for user", "root@10.0.0.7">>,
      <<"password", "authentication failed", "for user", "admin">>,
      <<"Unknown database", "sales">>,
      <<"connect", "ETIMEDOUT", "10.0.0.1:3306">>,
      <<"timeout", "expired">>,
      <<"getaddrinfo", "ENOTFOUND", "db.internal">>,
      <<"connect", "ECONNREFUSED", "timeout">>,
      <<"authentication failed", "for user", "Unknown database">>,
      <<"Unknown database", "timeout">>,
      <<"connect", "ETIMEDOUT", "ECONNREFUSED">> }

DbIdleCall ==
    [op |-> "none", engine |-> "none", params |-> FALSE, tableName |-> <<>>,
     limit |-> 0, tableRows |-> 0]

DbNoResult ==
    [ok |-> FALSE, opened |-> FALSE, closed |-> FALSE, queried |-> FALSE,
     limited |-> FALSE, sent |-> 0, dataRows |-> 0, cause |-> <<>>, error |-> ""]

\* connection.end() / client.release() and pool.end() follow the query inside
\* the try block, with no finally: they run when nothing was thrown before.
ClosedAfter(opened, ok) == opened /\ ok

\* Whether a connection or pool exists once the driver has answered: the pg
\* Pool is constructed before it connects, the mysql connection exists when
\* createConnection has resolved.
Opened(engine, ok, failAt) ==
    engine = "postgresql" \/ (engine # "postgresql" /\ (ok \/ failAt = "query"))

\* DbConnectorService.testConnection: never throws, failures are returned as
\* {success: false, message}.
TestConnection ==
    /\ dpc = "idle"
    /\ \E engine \in {"mysql", "postgresql", "oracle"}, params \in BOOLEAN,
          ok \in BOOLEAN, failAt \in {"connect", "query"},
          message \in UnderlyingErrors :
          LET reached == params /\ engine \in {"mysql", "postgresql"}
              opened == reached /\ Opened(engine, ok, failAt)
              cause == IF ~params THEN <<"Missing required connection parameters">>
                       ELSE IF engine \notin {"mysql", "postgresql"}
                       THEN <<"Unsupported database engine", engine>>
                       ELSE IF ~ok THEN message
                       ELSE <<>>
          IN /\ (ok => failAt = "query")
             /\ dcall' = [DbIdleCall EXCEPT !.op = "testConnection",
                                            !.engine = engine, !.params = params]
             /\ dres' = [DbNoResult EXCEPT
                           !.ok = cause = <<>>,
                           !.opened = opened,
                           !.closed = ClosedAfter(opened, ok),
                           !.queried = reached /\ failAt = "query",
                           !.cause = cause,
                           !.error = IF cause = <<>> THEN ""
                                     ELSE sanitizeErrorMessage(cause)]
    /\ dpc' = "done"
    /\ UNCHANGED notDb

\* DbConnectorService.getTables: failures are thrown with the sanitized message.
GetTables ==
    /\ dpc = "idle"
    /\ \E engine \in {"mysql", "postgresql", "oracle"}, ok \in BOOLEAN,
          failAt \in {"connect", "query"}, message \in UnderlyingErrors :
          LET reached == engine \in {"mysql", "postgresql"}
              opened == reached /\ Opened(engine, ok, failAt)
              cause == IF engine \notin {"mysql", "postgresql"}
                       THEN <<"Unsupported database engine", engine>>
                       ELSE IF ~ok THEN message
                       ELSE <<>>
          IN /\ (ok => failAt = "query")
             /\ dcall' = [DbIdleCall EXCEPT !.op = "getTables", !.engine = engine,
                                            !.params = TRUE]
             /\ dres' = [DbNoResult EXCEPT
                           !.ok = cause = <<>>,
                           !.opened = opened,
                           !.closed = ClosedAfter(opened, ok),
                           !.queried = reached /\ failAt = "query",
                           !.cause = cause,
                           !.error = IF cause = <<>> THEN ""
                                     ELSE sanitizeErrorMessage(cause)]
    /\ dpc' = "done"
    /\ UNCHANGED notDb

\* DbConnectorService.getTableData(config, tableName, limit) on a table of
\* tableRows rows: the query carries LIMIT Math.min(limit, MAX_ROWS).
GetTableData ==
    /\ dpc = "idle"
    /\ \E engine \in {"mysql", "postgresql", "oracle"},
          tableName \in {T1, T2, TBad, <<"t", " ", "x">>, <<"t", "'", "-", "-">>},
          limit \in {1, MAX_ROWS - 1, MAX_ROWS, MAX_ROWS + 1, 2 * MAX_ROWS},
          tableRows \in {0, 2, MAX_ROWS, MAX_ROWS + 1},
          ok \in BOOLEAN, failAt \in {"connect", "query"},
          message \in UnderlyingErrors :
          LET rowLimit == RowLimit(limit)
              answer == IF ok
                        THEN [ok |-> TRUE, fields |-> <<"id">>,
                              rows |-> Select(tableRows, rowLimit), message |-> <<>>]
                        ELSE [ok |-> FALSE, fields |-> <<>>, rows |-> <<>>,
                              message |-> message]
              result == getTableData(engine, tableName, answer)
              reached == isValidTableName(tableName) /\ engine \in {"mysql", "postgresql"}
              opened == reached /\ Opened(engine, ok, failAt)
              queried == reached /\ failAt = "query"
          IN /\ (ok => failAt = "query")
             /\ (~ok => tableRows = 0)
             /\ (ok => message = <<"timeout", "expired">>)
             /\ dcall' = [op |-> "getTableData", engine |-> engine, params |-> TRUE,
                          tableName |-> tableName, limit |-> limit,
                          tableRows |-> tableRows]
             /\ dres' = [ok |-> result.ok, opened |-> opened,
                         closed |-> ClosedAfter(opened, ok),
                         queried |-> queried, limited |-> queried,
                         sent |-> IF queried THEN rowLimit ELSE 0,
                         dataRows |-> IF result.rows = <<>> THEN 0
                                      ELSE Len(result.rows) - 1,
                         cause |-> result.cause, error |-> result.error]
    /\ dpc' = "done"
    /\ UNCHANGED notDb

\* SqlDatabaseService.importTable on a table of tableRows rows: importMySQLTable
\* and importPostgreSQLTable send `SELECT * FROM <table>` without a LIMIT and
\* return every row; failures are thrown as "Failed to import table: " and the
\* underlying message.
ImportTable ==
    /\ dpc = "idle"
    /\ \E type \in {"mysql", "mariadb", "postgresql", "oracle"},
          tableRows \in {0, 2, MAX_ROWS, MAX_ROWS + 1},
          ok \in BOOLEAN, message \in UnderlyingErrors :
          LET queried == type \in {"mysql", "mariadb", "postgresql"}
              cause == IF ~queried THEN <<"Unsupported database type", type>>
                       ELSE IF ~ok THEN message
                       ELSE <<>>
          IN /\ (~ok => tableRows = 0)
             /\ (ok => message = <<"timeout", "expired">>)
             /\ dcall' = [DbIdleCall EXCEPT !.op = "importTable", !.engine = type,
                                            !.params = TRUE, !.tableName = T1,
                                            !.tableRows = tableRows]
             /\ dres' = [ok |-> cause = <<>>, opened |-> queried,
                         closed |-> queried /\ (ok \/ type # "postgresql"),
                         queried |-> queried, limited |-> FALSE,
                         sent |-> 0,
                         dataRows |-> IF cause = <<>> THEN tableRows ELSE 0,
                         cause |-> cause,
                         error |-> IF ~queried THEN "Unsupported database type: ${type}"
                                   ELSE IF ~ok
                                   THEN "Failed to import table: ${error.message}"
                                   ELSE ""]
    /\ dpc' = "done"
    /\ UNCHANGED notDb

\* The caller has the outcome.
DbReturn ==
    /\ dpc = "done"
    /\ dpc' = "idle"
    /\ dcall' = DbIdleCall
    /\ dres' = DbNoResult
    /\ UNCHANGED notDb

DbIdle ==
    /\ dpc = "idle"
    /\ dcall = DbIdleCall
    /\ dres = DbNoResult

\* ------------------------------------------------- persistence collaborator
NoSourceInfo ==
    [type |-> "none", uploaded |-> FALSE, spreadsheetId |-> <<>>,
     sheets |-> <<>>, sheetName |-> NULL, range |-> <<>>,
     tables |-> <<>>, table |-> NULL, originalFileId |-> 0,
     engine |-> "none", host |-> <<>>, port |-> <<>>, database |-> <<>>,
     user |-> <<>>, password |-> NULL, refreshMode |-> "none", lastRefresh |-> 0]

\* createFile(ownerId, name, mimeType, size, sheetCount, sourceInfo) -> fileId
createFile(fs, name, mimeType, size, sheetCount, sourceInfo) ==
    Append(fs, [original_name |-> name, mime_type |-> mimeType, size |-> size,
                sheet_count |-> sheetCount, source_info |-> sourceInfo,
                sheets |-> <<>>])

\* createSheet(fileId, name, index, rowCount, columnCount) -> sheetId
createSheet(fs, fileId, name, index, rowCount, columnCount) ==
    [fs EXCEPT ![fileId].sheets =
        Append(@, [name |-> name, index |-> index, row_count |-> rowCount,
                   column_count |-> columnCount, rows |-> <<>>])]

\* createExcelData(sheetId, rowIndex, rowValues)
createExcelData(fs, sheetId, rowIndex, rowValues) ==
    [fs EXCEPT ![sheetId[1]].sheets[sheetId[2]].rows =
        Append(@, [row_index |-> rowIndex, data |-> rowValues])]

\* getFileById(fileId) -> file | null
getFileById(fs, fileId) ==
    IF fileId \in 1 .. Len(fs) THEN fs[fileId] ELSE NULL

\* updateFileData(fileId, [{name, data}]): the stored sheets of the file
\* become the ones given.
updateFileData(fs, fileId, list) ==
    [fs EXCEPT ![fileId].sheets =
        [k \in 1 .. Len(list) |->
            [name |-> list[k].name, index |-> k - 1,
             row_count |-> Len(list[k].data),
             column_count |-> IF list[k].data = <<>> THEN 0
                              ELSE Len(list[k].data[1]),
             rows |-> [r \in 1 .. Len(list[k].data) |->
                          [row_index |-> r - 1, data |-> list[k].data[r]]]]]]

\* --------------------------------------------------------- import routes
ImportKinds == {"google-sheets/import", "sql/import", "sql-db/import"}

RefreshKinds == {"google-sheets/refresh", "sql-db/refresh"}

NoRequest ==
    [kind |-> "none", params |-> FALSE, names |-> <<>>, fileId |-> 0,
     password |-> FALSE, engine |-> "none"]

NoILocals ==
    [fileId |-> 0, i |-> 0, data |-> <<>>, headers |-> <<>>, sheetId |-> <<>>,
     rowIndex |-> 0, imported |-> <<>>, path |-> 0, name |-> NULL,
     engine |-> "none"]

NoResponse == [status |-> 0, error |-> "", count |-> 0]

SheetNamePool == << <<"S", "1">>, <<"S", "2">>, <<"S", "3">>, <<"S", "4">> >>

TableNamePool == <<T1, T2, TBad, <<"t", "4">> >>

\* The sheetNames / tables / tableNames array of a request body.
NameChoices(kind) ==
    IF kind = "google-sheets/import"
    THEN { SubSeq(SheetNamePool, 1, n) : n \in 0 .. MaxNames }
    ELSE { SubSeq(TableNamePool, 1, n) : n \in 0 .. MaxNames } \cup { <<TBad>> }

\* What googleSheetsService.getSheetData answers: the rows of the range, or
\* an error.
SheetAnswers ==
    { [ok |-> TRUE, data |-> <<>>],
      [ok |-> TRUE, data |-> << <<Str(<<"h">>)>>, <<Str(<<"v">>)>> >>],
      [ok |-> FALSE, data |-> <<>>] }

EmptyResultMessage(kind) ==
    CASE kind = "google-sheets/import" -> "None of the selected sheets contained data."
      [] kind = "sql/import" -> "None of the selected tables contained data."
      [] kind = "sql-db/import" -> "No data could be imported from the selected tables."
      [] kind = "google-sheets/refresh" -> "The Google Sheet is now empty."
      [] OTHER -> "The table is now empty."

\* The 400 answer of each import route to a body that fails its validation,
\* and of each refresh route to a file it cannot refresh.
RejectedMessage(kind) ==
    CASE kind = "google-sheets/import" ->
           "Missing required parameters or sheetNames is not an array"
      [] kind = "sql/import" ->
           "Missing required parameters (userId, fileId, tables array)"
      [] kind = "sql-db/import" ->
           "Missing required parameters or tableNames is not an array"
      [] kind = "google-sheets/refresh" ->
           "File is not a Google Sheet or missing source info"
      [] OTHER -> "File is not a SQL database import or missing source info"

\* String.prototype.includes on sequences of characters.
Includes(text, part) ==
    \E o \in 0 .. Len(text) :
        /\ o + Len(part) <= Len(text)
        /\ \A k \in 1 .. Len(part) : text[o + k] = part[k]

\* files.find(f => f.includes(original_name) || f.endsWith(original_name)):
\* the first file of the uploads directory whose name contains the name; 0
\* when there is none. The stored name is a numeric suffix, "-" and the
\* original name.
FindUpload(originalName) ==
    LET hits == { k \in 1 .. Len(disk) : Includes(disk[k].originalname, originalName) }
    IN IF hits = {} THEN 0 ELSE CHOOSE k \in hits : \A h \in hits : k <= h

\* res.status(...).json(...): the handler is finished.
IRespond(status, error, count) ==
    /\ ipc' = "done"
    /\ ires' = [status |-> status, error |-> error, count |-> count]
    /\ iloc' = NoILocals

\* The head of the loop over the selected names, and what follows the loop.
LoopHead(loc) ==
    IF loc.i > Len(ireq.names)
    THEN IF loc.imported = <<>>
         THEN IRespond(400, EmptyResultMessage(ireq.kind), 0)
         ELSE IRespond(200, "", Len(loc.imported))
    ELSE /\ ipc' = "fetch"
         /\ iloc' = loc
         /\ UNCHANGED ires

\* The file records made by import requests (not by uploads).
Imported(fs) == SelectSeq(fs, LAMBDA f : ~f.source_info.uploaded)

\* POST /api/upload with a SQL file: multer has stored the file, the handler
\* creates its file record. The stored file remembers which file record the
\* request that uploaded it created (0 when createFile failed).
UploadSql ==
    /\ ipc = "idle"
    /\ Len(disk) < MaxUploads
    /\ \E originalname \in { <<"d">>, <<"b", "d">> }, dump \in DumpChoices, ok \in BOOLEAN :
          /\ disk' = Append(disk, [suffix |-> Len(disk) + 1,
                                   originalname |-> originalname,
                                   fileId |-> IF ok THEN Len(files) + 1 ELSE 0,
                                   size |-> dump.size, blank |-> dump.blank,
                                   statements |-> dump.statements])
          /\ IF ok
             THEN files' = createFile(files, originalname, "application/sql",
                                      dump.size, 0,
                                      [NoSourceInfo EXCEPT !.type = "sql_dump",
                                                           !.uploaded = TRUE])
             ELSE UNCHANGED files
    /\ UNCHANGED <<ipc, ireq, iloc, ires, icalls, ifetched, ipre, notImport>>

\* POST /api/sql/metadata: the file record is looked up, the uploads
\* directory is searched for its dump and the table names of the dump found
\* are answered; nothing is stored. iloc.path keeps the file that was opened.
SqlMetadata ==
    /\ ipc = "idle"
    /\ \E fileId \in 0 .. Len(files), ok \in BOOLEAN :
          LET file == getFileById(files, fileId)
              path == IF fileId = 0 \/ ~ok \/ file = NULL THEN 0
                      ELSE FindUpload(file.original_name)
              tables == IF path = 0 THEN [ok |-> FALSE, names |-> <<>>, error |-> ""]
                        ELSE extractTableNames(disk[path])
          IN /\ ireq' = [NoRequest EXCEPT !.kind = "sql/metadata",
                                          !.params = (fileId # 0),
                                          !.fileId = fileId]
             /\ ires' = IF fileId = 0
                        THEN [status |-> 400, error |-> "Missing file ID", count |-> 0]
                        ELSE IF ~ok
                        THEN [status |-> 500, error |-> "getFileById failed", count |-> 0]
                        ELSE IF file = NULL
                        THEN [status |-> 404, error |-> "File not found", count |-> 0]
                        ELSE IF path = 0
                        THEN [status |-> 404, count |-> 0,
                              error |-> "SQL file not found on server. Please re-upload."]
                        ELSE IF ~tables.ok
                        THEN [status |-> 500, error |-> tables.error, count |-> 0]
                        ELSE IF tables.names = <<>>
                        THEN [status |-> 400, count |-> 0,
                              error |-> "No tables found in SQL dump. Please ensure the file contains CREATE TABLE or INSERT INTO statements."]
                        ELSE [status |-> 200, error |-> "", count |-> Len(tables.names)]
             /\ iloc' = [NoILocals EXCEPT !.path = path]
    /\ ipc' = "done"
    /\ icalls' = <<>>
    /\ ifetched' = <<>>
    /\ ipre' = files
    /\ UNCHANGED <<files, disk, notImport>>

\* POST /api/sql-db/test and /api/sql-db/tables: the body is validated, the
\* connection is tried (the tables are listed) with the credentials of the
\* body and the outcome is answered; nothing is stored.
SqlDbProbe ==
    /\ ipc = "idle"
    /\ \E kind \in {"sql-db/test", "sql-db/tables"}, params \in BOOLEAN,
          answer \in DbAnswers :
          /\ ireq' = [NoRequest EXCEPT !.kind = kind, !.params = params,
                                       !.password = TRUE, !.engine = "postgresql"]
          /\ IF ~params
             THEN IRespond(400, "Missing required connection parameters", 0)
             ELSE IF answer.ok
             THEN IRespond(200, "", 0)
             ELSE IRespond(IF kind = "sql-db/test" THEN 400 ELSE 500,
                           sanitizeErrorMessage(answer.message), 0)
    /\ icalls' = <<>>
    /\ ifetched' = <<>>
    /\ ipre' = files
    /\ UNCHANGED <<files, disk, notImport>>

\* An import request arrives; the handler validates the body and runs to its
\* first await.
ImportRequest ==
    /\ ipc = "idle"
    /\ \E kind \in ImportKinds, params \in BOOLEAN, fileId \in 0 .. Len(files),
          engine \in {"postgresql", "oracle"} :
       \E names \in NameChoices(kind) :
          LET req == [kind |-> kind, params |-> params, names |-> names,
                      fileId |-> IF kind = "sql/import" THEN fileId ELSE 0,
                      password |-> TRUE,
                      engine |-> IF kind = "sql-db/import" THEN engine ELSE "none"]
          IN /\ IF kind = "sql/import"
                THEN Len(Imported(files)) + Len(names) <= MaxFiles
                ELSE Len(Imported(files)) < MaxFiles
             /\ (kind # "sql/import" => fileId = 0)
             /\ (kind # "sql-db/import" => engine = "oracle")
             /\ ireq' = req
             /\ IF ~params \/ (kind = "sql/import" /\ (fileId = 0 \/ names = <<>>))
                THEN IRespond(400, RejectedMessage(kind), 0)
                ELSE /\ ipc' = IF kind = "sql/import" THEN "getFile" ELSE "createFile"
                     /\ iloc' = [NoILocals EXCEPT !.engine = req.engine]
                     /\ ires' = NoResponse
    /\ icalls' = <<>>
    /\ ifetched' = <<>>
    /\ ipre' = files
    /\ UNCHANGED <<files, disk, notImport>>

\* sql/import: getFileById answers; the uploads directory is searched.
ImportGetFile ==
    /\ ipc = "getFile"
    /\ ireq.kind = "sql/import"
    /\ icalls' = Append(icalls, "getFileById")
    /\ \E ok \in BOOLEAN :
          LET file == getFileById(files, ireq.fileId)
          IN IF ~ok THEN IRespond(500, "getFileById failed", 0)
             ELSE IF file = NULL THEN IRespond(404, "File not found", 0)
             ELSE IF FindUpload(file.original_name) = 0
             THEN IRespond(404, "SQL file not found on server. Please re-upload.", 0)
             ELSE LoopHead([iloc EXCEPT !.i = 1,
                                        !.path = FindUpload(file.original_name)])
    /\ UNCHANGED <<files, disk, ireq, ifetched, ipre, notImport>>

\* The source answers for the current name. A table or sheet with rows goes
\* on to be persisted, one without is skipped.
ImportFetch ==
    /\ ipc = "fetch"
    /\ ireq.kind \in ImportKinds
    /\ LET name == ireq.names[iloc.i]
           skip == [iloc EXCEPT !.i = @ + 1]
       IN CASE ireq.kind = "google-sheets/import" ->
                 \E answer \in SheetAnswers :
                    IF ~answer.ok
                    THEN /\ IRespond(500, "getSheetData failed", 0)
                         /\ UNCHANGED ifetched
                    ELSE /\ ifetched' = Append(ifetched, Len(answer.data))
                         /\ IF Len(answer.data) > 0
                            THEN /\ ipc' = "createSheet"
                                 /\ iloc' = [iloc EXCEPT !.data = answer.data,
                                                         !.headers = answer.data[1]]
                                 /\ UNCHANGED ires
                            ELSE LoopHead(skip)
            [] ireq.kind = "sql-db/import" ->
                 \E answer \in DbAnswers :
                    LET result == getTableData(iloc.engine, name, answer)
                    IN IF ~result.ok
                       THEN /\ IRespond(500, result.error, 0)
                            /\ UNCHANGED ifetched
                       ELSE /\ ifetched' = Append(ifetched, Len(answer.rows))
                            /\ IF Len(result.rows) > 0
                               THEN /\ ipc' = "createSheet"
                                    /\ iloc' = [iloc EXCEPT !.data = result.rows,
                                                            !.headers = result.headers]
                                    /\ UNCHANGED ires
                               ELSE LoopHead(skip)
            [] OTHER ->
                 LET result == extractTableData(disk[iloc.path], name)
                 IN IF ~result.ok
                    THEN /\ IRespond(500, result.error, 0)
                         /\ UNCHANGED ifetched
                    ELSE /\ ifetched' = Append(ifetched, Len(result.rows) - 1)
                         /\ IF Len(result.rows) = 0
                            THEN LoopHead(skip)
                            ELSE /\ ipc' = "createFile"
                                 /\ iloc' = [iloc EXCEPT !.data = result.rows,
                                                         !.headers = result.headers]
                                 /\ UNCHANGED ires
    /\ UNCHANGED <<files, disk, ireq, icalls, ipre, notImport>>

NewFileOfWithPassword(fs, req, loc) ==
    createFile(fs, <<"D", "B">>, "application/sql", 0, Len(req.names),
               [NoSourceInfo EXCEPT !.type = "sql_database",
                                    !.tables = req.names,
                                    !.engine = req.engine,
                                    !.password = <<"password">>,
                                    !.refreshMode = "manual",
                                    !.lastRefresh = now])

\* The sourceInfo object and the other arguments of the createFile call of
\* each import route.
NewFileOf(fs, req, loc) ==
    CASE req.kind = "google-sheets/import" ->
           createFile(fs, <<"G", "S">>, "application/vnd.google-apps.spreadsheet",
                      0, Len(req.names),
                      [NoSourceInfo EXCEPT !.type = "google_sheet",
                                           !.spreadsheetId = <<"spreadsheetId">>,
                                           !.sheets = req.names,
                                           !.range = <<"A1:Z5000">>,
                                           !.refreshMode = "manual",
                                           !.lastRefresh = now])
      [] req.kind = "sql-db/import" ->
           createFile(fs, <<"D", "B">>, "application/sql", 0, Len(req.names),
                      [NoSourceInfo EXCEPT !.type = "sql_database",
                                           !.tables = req.names,
                                           !.engine = req.engine,
                                           !.host = <<"host">>,
                                           !.port = <<"port">>,
                                           !.database = <<"database">>,
                                           !.user = <<"user">>,
                                           !.refreshMode = "manual",
                                           !.lastRefresh = now])
      [] OTHER ->
           createFile(fs, <<"S", "Q", "L">>, "application/sql", 0, 1,
                      [NoSourceInfo EXCEPT !.type = "sql_dump",
                                           !.table = req.names[loc.i],
                                           !.originalFileId = req.fileId,
                                           !.refreshMode = "static"])

\* createFile answers: once before the loop for Google Sheets and live
\* databases, once per table for a SQL dump.
ImportCreateFile ==
    /\ ipc = "createFile"
    /\ icalls' = Append(icalls, "createFile")
    /\ \E ok \in BOOLEAN :
          IF ~ok
          THEN /\ IRespond(500, "createFile failed", 0)
               /\ UNCHANGED files
          ELSE /\ files' = NewFileOf(files, ireq, iloc)
               /\ IF ireq.kind = "sql/import"
                  THEN /\ ipc' = "createSheet"
                       /\ iloc' = [iloc EXCEPT !.fileId = Len(files) + 1]
                       /\ UNCHANGED ires
                  ELSE LoopHead([iloc EXCEPT !.fileId = Len(files) + 1, !.i = 1])
    /\ UNCHANGED <<disk, ireq, ifetched, ipre, notImport>>

\* createSheet answers for the table just fetched.
ImportCreateSheet ==
    /\ ipc = "createSheet"
    /\ icalls' = Append(icalls, "createSheet")
    /\ \E ok \in BOOLEAN :
          IF ~ok
          THEN /\ IRespond(500, "createSheet failed", 0)
               /\ UNCHANGED files
          ELSE /\ files' = createSheet(files, iloc.fileId, ireq.names[iloc.i],
                                       IF ireq.kind = "sql/import" THEN 0
                                       ELSE iloc.i - 1,
                                       Len(iloc.data), Len(iloc.headers))
               /\ ipc' = "rows"
               /\ iloc' = [iloc EXCEPT
                             !.sheetId = <<iloc.fileId,
                                           Len(files[iloc.fileId].sheets) + 1>>,
                             !.rowIndex = 0]
               /\ UNCHANGED ires
    /\ UNCHANGED <<disk, ireq, ifetched, ipre, notImport>>

SkipRowIndex(rowIndex) == rowIndex + 2

\* rowIndex++ of the loop `for (rowIndex = 0; rowIndex < data.length; rowIndex++)`.
NextRowIndex(rowIndex) == rowIndex + 1

\* createExcelData answers for one row; after the last row the table is
\* recorded as imported and the loop goes on.
ImportCreateExcelData ==
    /\ ipc = "rows"
    /\ icalls' = Append(icalls, "createExcelData")
    /\ \E ok \in BOOLEAN :
          IF ~ok
          THEN /\ IRespond(500, "createExcelData failed", 0)
               /\ UNCHANGED files
          ELSE /\ files' = createExcelData(files, iloc.sheetId, iloc.rowIndex,
                                           iloc.data[iloc.rowIndex + 1])
               /\ IF NextRowIndex(iloc.rowIndex) < Len(iloc.data)
                  THEN /\ iloc' = [iloc EXCEPT !.rowIndex = NextRowIndex(@)]
                       /\ UNCHANGED <<ipc, ires>>
                  ELSE LoopHead([iloc EXCEPT
                                   !.imported = Append(@, ireq.names[iloc.i]),
                                   !.i = @ + 1,
                                   !.data = <<>>, !.headers = <<>>,
                                   !.sheetId = <<>>, !.rowIndex = 0])
    /\ UNCHANGED <<disk, ireq, ifetched, ipre, notImport>>

\* ---------------------------------------------------------- refresh routes
RefreshRequest ==
    /\ ipc = "idle"
    /\ \E kind \in RefreshKinds, fileId \in 1 .. Len(files) + 1,
          password \in BOOLEAN :
          /\ (kind = "google-sheets/refresh" => password)
          /\ ireq' = [NoRequest EXCEPT !.kind = kind, !.params = TRUE,
                                       !.fileId = fileId, !.password = password]
    /\ ipc' = "getFile"
    /\ iloc' = NoILocals
    /\ ires' = NoResponse
    /\ icalls' = <<>>
    /\ ifetched' = <<>>
    /\ ipre' = files
    /\ UNCHANGED <<files, disk, notImport>>

\* getFileById answers; the file's source info is checked and destructured.
RefreshGetFile ==
    /\ ipc = "getFile"
    /\ ireq.kind \in RefreshKinds
    /\ icalls' = Append(icalls, "getFileById")
    /\ \E ok \in BOOLEAN :
          LET file == getFileById(files, ireq.fileId)
          IN IF ~ok THEN IRespond(500, "getFileById failed", 0)
             ELSE IF \/ file = NULL
                     \/ file.source_info.type #
                           (IF ireq.kind = "google-sheets/refresh"
                            THEN "google_sheet" ELSE "sql_database")
             THEN IRespond(400, RejectedMessage(ireq.kind), 0)
             ELSE IF ireq.kind = "sql-db/refresh" /\ ~ireq.password
             THEN IRespond(400, "Password required to refresh SQL database connection", 0)
             ELSE /\ ipc' = "fetch"
                  /\ iloc' = [NoILocals EXCEPT
                                !.fileId = ireq.fileId,
                                !.name = IF ireq.kind = "google-sheets/refresh"
                                         THEN file.source_info.sheetName
                                         ELSE file.source_info.table,
                                !.engine = IF ireq.kind = "sql-db/refresh"
                                           THEN file.source_info.engine
                                           ELSE "none"]
                  /\ UNCHANGED ires
    /\ UNCHANGED <<files, disk, ireq, ifetched, ipre, notImport>>

NeverEmptyData(data) == FALSE

\* !data || data.length === 0
IsEmptyData(data) == Len(data) = 0

\* The source answers the refresh's fetch.
RefreshFetch ==
    /\ ipc = "fetch"
    /\ ireq.kind \in RefreshKinds
    /\ \E sheet \in SheetAnswers, db \in DbAnswers :
          LET result == IF ireq.kind = "google-sheets/refresh"
                        THEN [ok |-> sheet.ok, rows |-> sheet.data,
                              error |-> "getSheetData failed"]
                        ELSE getTableData(iloc.engine, iloc.name, db)
              yielded == IF ireq.kind = "google-sheets/refresh"
                         THEN Len(sheet.data) ELSE Len(db.rows)
          IN IF ~result.ok
             THEN /\ IRespond(500, result.error, 0)
                  /\ UNCHANGED ifetched
             ELSE /\ ifetched' = Append(ifetched, yielded)
                  /\ IF IsEmptyData(result.rows)
                     THEN IRespond(400, EmptyResultMessage(ireq.kind), 0)
                     ELSE /\ ipc' = "update"
                          /\ iloc' = [iloc EXCEPT !.data = result.rows]
                          /\ UNCHANGED ires
    /\ UNCHANGED <<files, disk, ireq, icalls, ipre, notImport>>

\* updateFileData answers.
RefreshUpdate ==
    /\ ipc = "update"
    /\ icalls' = Append(icalls, "updateFileData")
    /\ \E ok \in BOOLEAN :
          IF ~ok
          THEN /\ IRespond(500, "updateFileData failed", 0)
               /\ UNCHANGED files
          ELSE /\ files' = updateFileData(files, iloc.fileId,
                                          <<[name |-> iloc.name, data |-> iloc.data]>>)
               /\ IF ireq.kind = "google-sheets/refresh"
                  THEN IRespond(200, "", Len(iloc.data))
                  ELSE /\ ipc' = "updateInfo"
                       /\ UNCHANGED <<iloc, ires>>
    /\ UNCHANGED <<disk, ireq, ifetched, ipre, notImport>>

\* sql-db/refresh: the update of source_info.lastRefresh answers; its result
\* is not inspected.
RefreshUpdateInfo ==
    /\ ipc = "updateInfo"
    /\ icalls' = Append(icalls, "update source_info")
    /\ \E ok \in BOOLEAN :
          files' = IF ok
                   THEN [files EXCEPT ![iloc.fileId].source_info.lastRefresh = now]
                   ELSE files
    /\ IRespond(200, "", Len(iloc.data) - 1)
    /\ UNCHANGED <<disk, ireq, ifetched, ipre, notImport>>

\* The response has been sent; the next request may arrive.
ImportReturn ==
    /\ ipc = "done"
    /\ ipc' = "idle"
    /\ ireq' = NoRequest
    /\ iloc' = NoILocals
    /\ ires' = NoResponse
    /\ icalls' = <<>>
    /\ ifetched' = <<>>
    /\ ipre' = <<>>
    /\ UNCHANGED <<files, disk, notImport>>

ImportIdle ==
    /\ files = <<>>
    /\ disk = <<>>
    /\ ipc = "idle"
    /\ ireq = NoRequest
    /\ iloc = NoILocals
    /\ ires = NoResponse
    /\ icalls = <<>>
    /\ ifetched = <<>>
    /\ ipre = <<>>

\* ------------------------------------------------------- specifications
InitToken ==
    /\ now = 0
    /\ env \in EnvChoices
    /\ issued = 0
    /\ TokenInit
    /\ conn = [u \in Users |-> NULL]
    /\ UserIdle
    /\ FetchInit
    /\ NormIdle
    /\ ImportIdle
    /\ ListIdle
    /\ DbIdle
    /\ ParseIdle

NextToken ==
    \/ \E c \in Callers : GetAccessTokenCall(c)
    \/ \E c \in Callers : TokenResponseOk(c)
    \/ \E c \in Callers : TokenResponseFail(c)
    \/ \E c \in Callers : TokenCallReturn(c)
    \/ Advance(MaxTicks)

SpecToken == InitToken /\ [][NextToken]_vars

InitUser ==
    /\ now = 0
    /\ env \in { GoodEnv, [GoodEnv EXCEPT !.keyLen = KeyBytes - 1],
                 [GoodEnv EXCEPT !.keyLen = 0] }
    /\ issued = 0
    /\ TokenInit
    /\ UserInit
    /\ FetchInit
    /\ NormIdle
    /\ ImportIdle
    /\ ListIdle
    /\ DbIdle
    /\ ParseIdle

NextUser ==
    \/ \E p \in Procs : UserCall(p)
    \/ \E p \in Procs : GetUserAccessTokenSelect(p)
    \/ \E p \in Procs : RefreshResponseOk(p)
    \/ \E p \in Procs : RefreshResponseFail(p)
    \/ \E p \in Procs : StoreSelect(p)
    \/ \E p \in Procs : StoreUpdate(p)
    \/ \E p \in Procs : StoreInsert(p)
    \/ \E p \in Procs : GraphResponseOk(p)
    \/ \E p \in Procs : GraphResponseError(p)
    \/ \E p \in Procs : DisconnectDelete(p)
    \/ \E p \in Procs : UserReturn(p)
    \/ Advance(MaxUserTicks)

SpecUser == InitUser /\ [][NextUser]_vars

\* One service-mode caller and one user-mode request side by side.
NextAuth ==
    \/ GetAccessTokenCall(1)
    \/ TokenResponseOk(1)
    \/ TokenResponseFail(1)
    \/ TokenCallReturn(1)
    \/ UserCall(1)
    \/ GetUserAccessTokenSelect(1)
    \/ RefreshResponseOk(1)
    \/ RefreshResponseFail(1)
    \/ StoreSelect(1)
    \/ StoreUpdate(1)
    \/ StoreInsert(1)
    \/ GraphResponseOk(1)
    \/ GraphResponseError(1)
    \/ DisconnectDelete(1)
    \/ UserReturn(1)
    \/ Advance(MaxUserTicks)

SpecAuth == InitUser /\ [][NextAuth]_vars

InitFetch ==
    /\ now = 0
    /\ env = GoodEnv
    /\ issued = 0
    /\ TokenInit
    /\ conn = [u \in Users |-> NULL]
    /\ UserIdle
    /\ FetchInit
    /\ NormIdle
    /\ ImportIdle
    /\ ListIdle
    /\ DbIdle
    /\ ParseIdle

NextFetch ==
    \/ FetchStart
    \/ FetchGetAccessToken
    \/ TokenResponseOk(FetchCaller)
    \/ TokenResponseFail(FetchCaller)
    \/ FetchTokenDone
    \/ PageResponseOk
    \/ PageResponseFail
    \/ FetchReturn
    \/ Advance(MaxFetchTicks)

SpecFetch == InitFetch /\ [][NextFetch]_vars

InitNorm ==
    /\ now = 0
    /\ env = GoodEnv
    /\ issued = 0
    /\ TokenInit
    /\ conn = [u \in Users |-> NULL]
    /\ UserIdle
    /\ FetchInit
    /\ NormInit
    /\ ImportIdle
    /\ ListIdle
    /\ DbIdle
    /\ ParseIdle

NextNorm == NormalizeCall

SpecNorm == InitNorm /\ [][NextNorm]_vars

InitImport ==
    /\ now = 0
    /\ env = GoodEnv
    /\ issued = 0
    /\ TokenInit
    /\ conn = [u \in Users |-> NULL]
    /\ UserIdle
    /\ FetchInit
    /\ NormIdle
    /\ ImportIdle
    /\ ListIdle
    /\ DbIdle
    /\ ParseIdle

NextImport ==
    \/ UploadSql
    \/ SqlMetadata
    \/ SqlDbProbe
    \/ ImportRequest
    \/ ImportGetFile
    \/ ImportFetch
    \/ ImportCreateFile
    \/ ImportCreateSheet
    \/ ImportCreateExcelData
    \/ RefreshRequest
    \/ RefreshGetFile
    \/ RefreshFetch
    \/ RefreshUpdate
    \/ RefreshUpdateInfo
    \/ ImportReturn

SpecImport == InitImport /\ [][NextImport]_vars

InitParse ==
    /\ now = 0
    /\ env = GoodEnv
    /\ issued = 0
    /\ TokenInit
    /\ conn = [u \in Users |-> NULL]
    /\ UserIdle
    /\ FetchInit
    /\ NormIdle
    /\ ImportIdle
    /\ ListIdle
    /\ DbIdle
    /\ \E n \in 0 .. MaxStatements, size \in {2048, MaxFileSize + 1} :
          \E statements \in [1 .. n -> StatementPool] :
             pfile = [size |-> size, blank |-> n = 0, statements |-> statements]
    /\ ptable \in {T1, T2}
    /\ ppc = "idle"
    /\ pnames = [ok |-> FALSE, names |-> <<>>, error |-> ""]
    /\ pdata = [ok |-> FALSE, headers |-> <<>>, rows |-> <<>>, error |-> ""]

NextParse ==
    \/ ExtractTableNamesCall
    \/ ExtractTableDataCall

SpecParse == InitParse /\ [][NextParse]_vars

InitList ==
    /\ now = 0
    /\ env = GoodEnv
    /\ issued = 0
    /\ TokenInit
    /\ conn = [u \in Users |-> NULL]
    /\ UserIdle
    /\ FetchInit
    /\ NormIdle
    /\ ImportIdle
    /\ ListIdle
    /\ DbIdle
    /\ ParseIdle

NextList ==
    \/ ImportListCall
    \/ ColumnsResponse
    \/ ItemsResponse
    \/ ListReturn

SpecList == InitList /\ [][NextList]_vars

NextDb ==
    \/ TestConnection
    \/ GetTables
    \/ GetTableData
    \/ ImportTable
    \/ DbReturn

SpecDb == InitList /\ [][NextDb]_vars

\* ================================================================== claims

\* C1: in service mode, once a token was fetched at time T (cacheT) with
\* expires_in = E (cacheE), a getAccessToken call made strictly before
\* T + (E - 300) s returns that very token, sends no token request and leaves
\* the cache alone; a call at or after that instant sends exactly one token
\* request, and when that request is answered the cached token is replaced by
\* the newly issued one.
C1_TokenCacheMonotonicity ==
    [][\A c \in Callers :
        /\ (tpc[c] = "idle" /\ tpc'[c] # "idle" /\ isConfigured
                /\ tokenCache.accessToken # NULL)
              => IF now < cacheT + ((cacheE - 300) * 1000)
                 THEN /\ tpc'[c] = "done"
                      /\ tres'[c] = Returned(tokenCache.accessToken)
                      /\ treq'[c] = 0
                      /\ tokenCache' = tokenCache
                 ELSE /\ tpc'[c] = "waiting"
                      /\ treq'[c] = 1
        /\ (tpc[c] # "idle") => treq'[c] = treq[c]
        /\ (tpc[c] = "waiting" /\ tpc'[c] = "done" /\ tres'[c].ok)
              => /\ tokenCache'.accessToken = tres'[c].token
                 /\ tokenCache'.accessToken # tokenCache.accessToken
    ]_vars

\* A second token has been issued and a later call was served from the cache.
C1_Witness ==
    \E c \in Callers :
        /\ tpc[c] = "done" /\ tres[c].ok /\ treq[c] = 0
        /\ tres[c].token = tokenCache.accessToken
        /\ issued >= 2
        /\ now > cacheT

\* Request p is handed token t by getUserAccessToken in this step: the plain
\* call returns it, a Graph call sends it as its bearer token.
HandsOver(p, t) ==
    IF ucall[p].op = "getUserAccessToken"
    THEN upc'[p] = "done" /\ ures'[p] = UReturned(t)
    ELSE upc'[p] = "graphWait" /\ uloc'[p].token = t

\* C2: a user-mode Graph call (through SharePointOAuthService.graphRequest or
\* with the user's token through SharePointService.graphRequestWithUserToken)
\* that is answered 401 ends with the user's stored connection deleted.
C2_Disconnect401 ==
    [][\A p \in Procs :
        (upc[p] # "done" /\ upc'[p] = "done" /\ ures'[p].status = 401)
            => conn'[ucall[p].user] = NULL
    ]_vars

\* C3: getUserAccessToken for a connected user. If the stored expiry is
\* <= now + 5 min it sends exactly one refresh request and, once the new token
\* set is stored, the user's row holds the new access token, the new refresh
\* token and a new expiry, and the newly issued access token is handed over.
\* Otherwise it sends no request, writes nothing and hands over the stored
\* access token.
C3_GetUserAccessToken ==
    [][\A p \in Procs :
        LET u == ucall[p].user IN
        (ucall[p].op \in TokenOps /\ upc'[p] # upc[p]) =>
          /\ (upc[p] = "select" /\ conn[u] # NULL /\ OAuthIsConfigured)
                => IF Single(conn[u]).expires_at <= now + (5 * 60 * 1000)
                   THEN /\ upc'[p] = "refreshWait"
                        /\ ucnt'[p].refresh = 1
                        /\ ucnt'[p].writes = 0
                        /\ conn' = conn
                   ELSE /\ HandsOver(p, Decrypt(Single(conn[u]).access_token))
                        /\ ucnt'[p].refresh = 0
                        /\ ucnt'[p].writes = 0
                        /\ conn' = conn
          /\ (upc[p] \in {"refreshWait", "storeSelect"})
                => conn' = conn /\ ucnt'[p] = ucnt[p]
          /\ (upc[p] \in {"storeUpdate", "storeInsert"}
                /\ ~(upc'[p] = "done" /\ ~ures'[p].ok))
                => /\ Decrypt(Single(conn'[u]).access_token) = uloc[p].fresh.accessToken
                   /\ Decrypt(Single(conn'[u]).refresh_token) = uloc[p].fresh.refreshToken
                   /\ \E k \in 0 .. (MaxUserTicks + 1) :
                         /\ k * TickMs <= now
                         /\ Single(conn'[u]).expires_at
                               = (k * TickMs) + (uloc[p].fresh.expiresIn * 1000)
                   /\ \A v \in Users : v # u => conn'[v] = conn[v]
                   /\ HandsOver(p, uloc[p].fresh.accessToken)
                   /\ ucnt'[p].refresh = 1
                   /\ ucnt'[p].writes = 1
    ]_vars

\* A getUserAccessToken call has refreshed, stored and returned the new token.
C3_Witness ==
    \E p \in Procs :
        /\ upc[p] = "done" /\ ucall[p].op = "getUserAccessToken" /\ ures[p].ok
        /\ ucnt[p].refresh = 1 /\ ucnt[p].writes = 1
        /\ conn[ucall[p].user] # NULL
        /\ Decrypt(Single(conn[ucall[p].user]).access_token) = ures[p].value
        /\ ures[p].value # Tok(0)

\* The records of the pages served, in page order.
PagesOf(pages) ==
    SelectSeq([k \in 1 .. Len(pages) |-> <<k, pages[k].size>>],
              LAMBDA r : r[2] > 0)

RECURSIVE Total(_)
Total(pages) ==
    IF pages = <<>> THEN 0 ELSE Head(pages).size + Total(Tail(pages))

\* C4: a fetch over N pages whose last page carries no next link and whose
\* records stay below the 100,000 cap has sent exactly N requests, the first to
\* the built endpoint and request k+1 to the next link of page k as served, and
\* returns the records of the N pages in page order: N*S of them when every
\* page has S records.
C4_PaginatedFetch ==
    (/\ fpc = "done" /\ fres.ok
     /\ served # <<>>
     /\ served[Len(served)].next = NULL
     /\ Total(served) < 100000)
    => LET N == Len(served) IN
       /\ Len(freqs) = N
       /\ \E options \in FetchOptions :
             /\ freqs[1].url = <<"https://graph.microsoft.com/v1.0", BuiltEndpoint(options)>>
             /\ freqs[1].via # "axios.get"
       /\ \A k \in 2 .. N :
             /\ freqs[k].url = served[k - 1].next
             /\ freqs[k].via = "axios.get"
       /\ fres.items = PagesOf(served)
       /\ Count(fres.items) = Total(served)
       /\ \A S \in PageSizes :
             (\A k \in 1 .. N : served[k].size = S)
                => Count(fres.items) = N * S

\* Three pages of 30000 records each, the last without a next link.
C4_Witness ==
    /\ fpc = "done" /\ fres.ok
    /\ Len(served) = 3
    /\ \A k \in 1 .. 3 : served[k].size = 30000
    /\ served[3].next = NULL
    /\ Len(freqs) = 3
    /\ Count(fres.items) = 90000

\* C5: over a source that carries a next link on every page, a fetch that
\* succeeds returns exactly 100,000 records.
C5_StopsAtExactlyCap ==
    (/\ fpc = "done" /\ fres.ok
     /\ \A k \in 1 .. Len(served) : served[k].next # NULL)
    => Count(fres.items) = 100000

\* C6: once a request of the fetch has failed, the fetch has thrown, no
\* request was sent after the failed one and no records are returned.
C6_FailureAborts ==
    (fpc \in {"done", "token"} /\ Len(freqs) > Len(served))
    => /\ fpc = "done"
       /\ ~fres.ok
       /\ fres.items = NULL
       /\ fres.error # NULL
       /\ Len(freqs) = Len(served) + 1

\* The third request failed after two pages with records had been accumulated.
C6_Witness ==
    /\ fpc = "done" /\ ~fres.ok
    /\ Len(freqs) = 3 /\ Len(served) = 2
    /\ Count(allItems) > 0
    /\ fres.items = NULL

\* C7 (as the code has it): for a non-empty item list and a column list of
\* length C, normalizeListData returns a header row of length C followed by
\* one data row of length C per item, in input order; for the empty item list
\* it returns the empty table, without a header row.
C7_ShapeNonEmptyList ==
    (npc = "done") =>
        IF nitems = <<>> THEN nout = <<>>
        ELSE /\ Len(nout) = Len(nitems) + 1
             /\ Len(nout[1]) = Len(ncolumns)
             /\ \A i \in 1 .. Len(nitems) :
                   /\ Len(nout[i + 1]) = Len(ncolumns)
                   /\ \A j \in 1 .. Len(ncolumns) :
                         nout[i + 1][j] =
                            Coerce(FieldOf(nitems[i], ncolumns[j].name))

\* Two different items under two columns have been normalized.
C7_Witness ==
    /\ npc = "done"
    /\ Len(nitems) = 2 /\ Len(ncolumns) = 2
    /\ nitems[1] # nitems[2]
    /\ Len(nout) = 3
    /\ Len(nout[1]) = 2 /\ Len(nout[2]) = 2 /\ Len(nout[3]) = 2

\* C7 as stated: for every item list, the empty one included, the result is a
\* header row of length C followed by one data row of length C per item.
C7_ShapeAnyList ==
    (npc = "done") =>
        /\ Len(nout) = Len(nitems) + 1
        /\ Len(nout[1]) = Len(ncolumns)
        /\ \A i \in 1 .. Len(nitems) : Len(nout[i + 1]) = Len(ncolumns)

\* C8: every cell is the coercion of its field value by the first matching
\* rule: null/absent -> ""; object carrying a LookupValue property -> that
\* value; object carrying an Email property -> that value; sequence -> elements
\* joined with "; "; string with a date-time prefix -> the reformatted
\* date-time, not the raw string; otherwise the stringified value.
C8_CoercionPrecedence ==
    (npc = "done" /\ nitems # <<>>) =>
        \A i \in 1 .. Len(nitems), j \in 1 .. Len(ncolumns) :
            LET value == FieldOf(nitems[i], ncolumns[j].name)
                cell == nout[i + 1][j]
            IN IF value.t \in {"null", "undefined"} THEN cell = Str(<<>>)
               ELSE IF value.t = "object" /\ value.v.LookupValue # Undefined
               THEN cell = value.v.LookupValue
               ELSE IF value.t = "object" /\ value.v.Email # Undefined
               THEN cell = value.v.Email
               ELSE IF value.t = "array"
               THEN cell = Str(Join(value.v, <<";", " ">>))
               ELSE IF value.t = "string" /\ MatchesDatePrefix(value.v)
               THEN cell = ToLocaleString(value.v) /\ cell # value
               ELSE cell = Str(StringOf(value))

\* C9: an import request (Google Sheets, SQL dump, live SQL database) whose
\* selected sheets or tables have all been fetched and have all yielded zero
\* data rows is answered, unless a persistence call of its own failed, with
\* status 400 and the empty-result message of its route.
C9_EmptyResult ==
    (/\ ipc = "done"
     /\ ireq.kind \in ImportKinds
     /\ ireq.names # <<>>
     /\ Len(ifetched) = Len(ireq.names)
     /\ \A k \in 1 .. Len(ifetched) : ifetched[k] = 0
     /\ ires.error \notin {"getFileById failed", "createFile failed",
                            "createSheet failed", "createExcelData failed"})
    => /\ ires.status = 400
       /\ ires.error = EmptyResultMessage(ireq.kind)

C12_BadKeyConfigurationError ==
    (env.keyLen # KeyBytes) =>
        \A p \in Procs :
            (upc[p] = "done" /\ ucall[p].op \in TokenOps \cup {"storeUserTokens"})
                => /\ ~ures[p].ok
                   /\ ures[p].error \in {"Encryption key not configured",
                                         "User has not connected their SharePoint account"}

\* C13: getUserAccessToken for a user without a stored connection fails with
\* the not-connected error, sends no request to the identity provider and
\* leaves the connection table as it was.
C13_NotConnected ==
    [][\A p \in Procs :
        (/\ upc[p] = "select" /\ upc'[p] # upc[p]
         /\ conn[ucall[p].user] = <<>>)
            => /\ upc'[p] = "done"
               /\ ~ures'[p].ok
               /\ ures'[p].error = "User has not connected their SharePoint account"
               /\ ucnt'[p] = NoCounts
               /\ issued' = issued
               /\ conn' = conn
    ]_vars

\* A token operation for a user without a connection has failed.
C13_Witness ==
    \E p \in Procs :
        /\ upc[p] = "done" /\ ucall[p].op \in TokenOps
        /\ conn[ucall[p].user] = <<>>
        /\ ures[p].error = "User has not connected their SharePoint account"
        /\ ucnt[p] = NoCounts

\* C19: under every interleaving of OAuth callbacks, refreshes and disconnects
\* there is at most one stored connection per user, and a storeUserTokens call
\* that completes without error leaves exactly one.
C19_OneConnectionPerUser ==
    [][/\ \A u \in Users : Len(conn[u]) <= 1 /\ Len(conn'[u]) <= 1
       /\ \A p \in Procs :
            (/\ upc[p] \in {"storeUpdate", "storeInsert"}
             /\ upc'[p] # upc[p]
             /\ ~(upc'[p] = "done" /\ ~ures'[p].ok))
                => Len(conn'[ucall[p].user]) = 1
    ]_vars

\* Two callbacks for a user without a connection raced: both found no row and
\* both inserted; one succeeded and the other was rejected.
C19_Witness ==
    \E p, q \in Procs :
        /\ p # q
        /\ ucall[p] = [op |-> "storeUserTokens", user |-> ucall[q].user]
        /\ ucall[q].op = "storeUserTokens"
        /\ upc[p] = "done" /\ ures[p].ok
        /\ upc[q] = "done" /\ ~ures[q].ok /\ ucnt[q].writes = 0
        /\ Len(conn[ucall[p].user]) = 1

\* C20: concurrent service-mode getAccessToken calls that find the cache
\* empty or expired each send their own token request and each return the
\* token of their own response; the cache holds nothing or the token and the
\* expiry of one single response, the one written last.
C20_RacingCalls ==
    [][/\ \/ tokenCache' = [accessToken |-> NULL, expiresAt |-> NULL]
          \/ tokenCache' = [accessToken |-> Tok(issued'),
                            expiresAt |-> cacheT' + ((cacheE' - SafetyMarginSec) * MsPerSec)]
       /\ \A c \in Callers :
            /\ (tpc[c] = "idle" /\ tpc'[c] # "idle" /\ isConfigured /\ ~CacheValid)
                  => tpc'[c] = "waiting" /\ treq'[c] = 1
            /\ (tpc[c] = "waiting" /\ tpc'[c] = "done" /\ tres'[c].ok)
                  => /\ treq[c] = 1
                     /\ issued' = issued + 1
                     /\ tres'[c].token = Tok(issued')
                     /\ tokenCache'.accessToken = tres'[c].token
    ]_vars

\* Two calls raced on an unusable cache: both sent a request, both returned
\* a token, the tokens differ and the cache holds the later one.
C20_Witness ==
    \E c, d \in Callers :
        /\ c # d
        /\ tpc[c] = "done" /\ tpc[d] = "done"
        /\ treq[c] = 1 /\ treq[d] = 1
        /\ tres[c].ok /\ tres[d].ok
        /\ tres[c].token = Tok(1) /\ tres[d].token = Tok(2)
        /\ tokenCache.accessToken = Tok(2)

\* C14: in every import route the rows of a sheet are stored one after the
\* other in source order: each createExcelData call appends the row whose
\* index is the number of rows stored so far, with the values of that row of
\* the fetched table, the next call is made only once it has answered, and a
\* sheet whose loop has ended holds all rows of the table at indices 0, 1, 2, ...
C14_RowsInSourceOrder ==
    [][/\ \A f \in 1 .. Len(files) : \A s \in 1 .. Len(files[f].sheets) :
            \A k \in 1 .. Len(files[f].sheets[s].rows) :
                files[f].sheets[s].rows[k].row_index = k - 1
       /\ (ipc = "rows") =>
            LET stored == files[iloc.sheetId[1]].sheets[iloc.sheetId[2]].rows
                after == files'[iloc.sheetId[1]].sheets[iloc.sheetId[2]].rows
            IN /\ Len(stored) = iloc.rowIndex
               /\ \A k \in 1 .. Len(stored) : stored[k].data = iloc.data[k]
               /\ (files' # files) =>
                     /\ after = Append(stored, [row_index |-> iloc.rowIndex,
                                                data |-> iloc.data[iloc.rowIndex + 1]])
                     /\ icalls' = Append(icalls, "createExcelData")
                     /\ (ipc' = "rows" => iloc'.rowIndex = iloc.rowIndex + 1)
                     /\ (ipc' # "rows" => Len(after) = Len(iloc.data))
    ]_vars

\* An import has finished with a sheet of more than one row, stored in the
\* order of the fetched table.
C14_Witness ==
    /\ ipc = "done" /\ ires.status = 200
    /\ ireq.kind \in ImportKinds
    /\ \E f \in 1 .. Len(files) : \E s \in 1 .. Len(files[f].sheets) :
          /\ Len(files[f].sheets[s].rows) >= 3
          /\ files[f].sheets[s].rows[2].data # files[f].sheets[s].rows[3].data
          /\ files[f].sheets[s].rows[3].row_index = 2

\* C18: whatever test, tables, import and refresh requests were served, no
\* stored file record holds the database password in its source info; and a
\* sql-db refresh request without a password is answered 400 (500 only when
\* the file record could not be read) without a query to the database and
\* with the stored records as they were.
C18_PasswordNeverStored ==
    /\ \A f \in 1 .. Len(files) : files[f].source_info.password = NULL
    /\ (ireq.kind = "sql-db/refresh" /\ ~ireq.password)
          => /\ ipc \in {"getFile", "done"}
             /\ files = ipre
             /\ ifetched = <<>>
             /\ icalls \in {<<>>, <<"getFileById">>}
             /\ (ipc = "done") =>
                   \/ ires.status = 400
                   \/ ires.status = 500 /\ ires.error = "getFileById failed"

\* A refresh of a live-database import without a password was rejected.
C18_Witness ==
    /\ ireq.kind = "sql-db/refresh" /\ ~ireq.password
    /\ ipc = "done"
    /\ ires = [status |-> 400, count |-> 0,
               error |-> "Password required to refresh SQL database connection"]
    /\ files[ireq.fileId].source_info.type = "sql_database"
    /\ files[ireq.fileId].source_info.user # <<>>
    /\ files[ireq.fileId].sheets # <<>>

\* C15: a SharePoint list import enters the stages FetchingMetadata,
\* FetchingData, Normalizing in that order; a failure of a stage ends the
\* import in Failed with no later stage entered, and an import that ends
\* without failure has passed all three.
C15_StagesInOrder ==
    [][/\ lstages' = SubSeq(Stages, 1, Len(lstages'))
       /\ (lpc = "columns") => lstages = SubSeq(Stages, 1, 1)
       /\ (lpc = "items") => lstages = SubSeq(Stages, 1, 2)
       /\ (lpc # "done" /\ lpc' = "done" /\ ~lres'.ok)
             => /\ lres'.state = "Failed"
                /\ lstages' = lstages
                /\ nout' = nout /\ nitems' = nitems
       /\ (lpc # "done" /\ lpc' = "done" /\ lres'.ok)
             => /\ lstages' = Stages
                /\ nout' = normalizeListData(nitems', ncolumns)
       /\ (lpc = "done") => lstages' = lstages /\ lres' = lres /\ nout' = nout
    ]_vars

\* An import failed while fetching the items, after the columns were fetched:
\* nothing was normalized.
C15_Witness ==
    /\ lpc = "done" /\ ~lres.ok /\ lres.state = "Failed"
    /\ lstages = <<"FetchingMetadata", "FetchingData">>
    /\ ncolumns # <<>>
    /\ nout = <<>>

\* C16: every read of a live table, by either service and for either engine,
\* sends a row limit of at most 5000 to the database and returns at most 5000
\* data rows.
C16_RowCap ==
    (dpc = "done" /\ dcall.op \in {"getTableData", "importTable"} /\ dres.ok)
        => /\ dres.dataRows <= MAX_ROWS
           /\ dres.limited => dres.sent <= MAX_ROWS

\* C17: every error message DbConnectorService surfaces is one of five fixed
\* texts, the one of the first pattern, in the order connection refused,
\* authentication failed, unknown database, timeout, that the underlying
\* message contains, else the generic one; no other text of the underlying
\* message decides it.
C17_SanitizedErrors ==
    (dpc = "done" /\ dcall.op \in {"testConnection", "getTables", "getTableData"}
                  /\ ~dres.ok)
        => LET has(w) == \E k \in 1 .. Len(dres.cause) : dres.cause[k] = w
               refused == has("ECONNREFUSED")
               auth == has("ER_ACCESS_DENIED_ERROR") \/ has("authentication failed")
               unknown == has("Unknown database")
               timeout == has("ETIMEDOUT") \/ has("timeout")
           IN /\ dres.error \in
                   {"Unable to connect to database server. Please check host and port.",
                    "Authentication failed. Please check username and password.",
                    "Database not found. Please check database name.",
                    "Connection timeout. Please check your network and database availability.",
                    "Database operation failed. Please check your connection settings."}
              /\ refused =>
                   dres.error = "Unable to connect to database server. Please check host and port."
              /\ (~refused /\ auth) =>
                   dres.error = "Authentication failed. Please check username and password."
              /\ (~refused /\ ~auth /\ unknown) =>
                   dres.error = "Database not found. Please check database name."
              /\ (~refused /\ ~auth /\ ~unknown /\ timeout) =>
                   dres.error = "Connection timeout. Please check your network and database availability."
              /\ (~refused /\ ~auth /\ ~unknown /\ ~timeout) =>
                   dres.error = "Database operation failed. Please check your connection settings."

\* A connection error that names a host and also holds a later pattern was
\* surfaced as the connection-refused text.
C17_Witness ==
    /\ dpc = "done" /\ dcall.op = "getTableData" /\ ~dres.ok
    /\ dres.cause = <<"connect", "ECONNREFUSED", "timeout">>
    /\ dres.error = "Unable to connect to database server. Please check host and port."

\* C21: extractTableData returns rows whose first row is the header row and
\* in which every row is exactly as long as the headers.
C21_RowLengths ==
    (ppc = "extractTableData" /\ pdata.ok)
        => /\ pdata.rows[1] = pdata.headers
           /\ \A i \in 1 .. Len(pdata.rows) : Len(pdata.rows[i]) = Len(pdata.headers)

RECURSIVE ValuesInOrder(_, _)
ValuesInOrder(statements, tableName) ==
    IF statements = <<>> THEN <<>>
    ELSE (IF Head(statements).type = "insert" /\ Head(statements).table = tableName
          THEN Head(statements).values ELSE <<>>)
         \o ValuesInOrder(Tail(statements), tableName)

\* C22: a statement the parser rejects never makes extractTableNames or
\* extractTableData fail: their results are those for the dump without the
\* rejected statements, and the data rows of the table are the value lists of
\* its INSERT statements in statement order.
C22_UnparseableDropped ==
    LET parsed == [pfile EXCEPT !.statements =
                      SelectSeq(@, LAMBDA node : node.type # "unparseable")]
        values == ValuesInOrder(pfile.statements, ptable)
    IN /\ (ppc = "extractTableNames") =>
             /\ pnames = extractTableNames(parsed)
             /\ pnames.ok = ~(pfile.size > MaxFileSize \/ pfile.blank)
       /\ (ppc = "extractTableData") =>
             /\ pdata = extractTableData(parsed, ptable)
             /\ pdata.ok = ~(pfile.size > MaxFileSize \/ pfile.blank)
             /\ pdata.ok =>
                  /\ Len(pdata.rows) = Len(values) + 1
                  /\ \A k \in 1 .. Len(values) :
                        SubSeq(pdata.rows[k + 1], 1, Len(values[k])) = values[k]

\* A dump with a rejected statement between two INSERTs of the table was read.
C22_Witness ==
    /\ ppc = "extractTableData" /\ pdata.ok
    /\ Len(pfile.statements) = 3
    /\ pfile.statements[1].type = "insert" /\ pfile.statements[1].table = ptable
    /\ pfile.statements[2].type = "unparseable"
    /\ pfile.statements[3].type = "insert" /\ pfile.statements[3].table = ptable
    /\ pfile.statements[1] # pfile.statements[3]
    /\ Len(pdata.rows) >= 3

\* C23: every connection or pool that testConnection, getTables or
\* getTableData opened is closed when the call returns or throws.
C23_ConnectionsClosed ==
    (dpc = "done" /\ dcall.op \in {"testConnection", "getTables", "getTableData"}
                  /\ dres.opened)
        => dres.closed

\* C26: getTableData answers a table name that does not match
\* ^[a-zA-Z0-9_-]+$ with an error, without opening a connection and without
\* sending a query.
C26_InvalidNameRejected ==
    (/\ dpc = "done" /\ dcall.op = "getTableData"
     /\ dcall.tableName \in {TBad, <<"t", " ", "x">>, <<"t", "'", "-", "-">>})
        => /\ ~dres.ok
           /\ ~dres.opened
           /\ ~dres.queried
           /\ dres.cause = <<"Invalid table name">>
           /\ dres.error = "Database operation failed. Please check your connection settings."

\* A name holding a quote and a comment marker was rejected, for an engine
\* and a table that would otherwise have answered.
C26_Witness ==
    /\ dpc = "done" /\ dcall.op = "getTableData"
    /\ dcall.tableName = <<"t", "'", "-", "-">>
    /\ dcall.engine = "mysql" /\ dcall.tableRows = 2
    /\ ~dres.ok /\ ~dres.opened

\* C24: every Graph request of a list fetch, for the first and for every
\* later page, carries a token that is not within the five-minute safety
\* margin of its expiry when the request is sent: in service mode the token
\* getAccessToken has just handed over, usable at that moment (for tokens
\* issued with a lifetime longer than the margin); in user mode the caller's
\* token, still outside the margin.
C24_TokenFreshAtRequest ==
    [][/\ (tpc[FetchCaller] # "done" /\ tpc'[FetchCaller] = "done"
                                    /\ tres'[FetchCaller].ok)
             => /\ tres'[FetchCaller].token = tokenCache'.accessToken
                /\ (cacheE' > SafetyMarginSec) => now' < tokenCache'.expiresAt
       /\ (Len(freqs') > Len(freqs)) =>
             IF fmode' = "service"
             THEN freqs'[Len(freqs')].bearer = tres[FetchCaller].token
             ELSE now' < freqs'[Len(freqs')].bearer[3] - (SafetyMarginSec * MsPerSec)
    ]_vars

\* C25: an import request (Google Sheets, SQL dump, live SQL database) that
\* is answered with anything but success, be it a failure or the empty
\* result, leaves the file, sheet and row records as they were when the
\* request arrived.
C25_FailedImportLeavesStore ==
    (ipc = "done" /\ ireq.kind \in ImportKinds /\ ires.status # 200)
        => files = ipre

\* The names an import recorded in the source info of a file: the sheets of
\* a Google Sheets import, the tables of a live-database import.
RecordedNames(file) ==
    LET list == IF file.source_info.type = "google_sheet"
                THEN file.source_info.sheets ELSE file.source_info.tables
    IN { list[k] : k \in 1 .. Len(list) }

\* C27: a refresh of a file made by the Google Sheets (live-database) import
\* fetches a sheet (table) whose name is one of the names recorded in the
\* file's source info when it was imported (checked for files whose import
\* recorded a name and stored a sheet), and after a successful refresh the data is
\* stored under such a name.
C27_RefreshUsesRecordedName ==
    /\ (/\ ireq.kind \in RefreshKinds
        /\ ipc \in {"fetch", "update", "updateInfo"}
        /\ files[iloc.fileId].sheets # <<>>
        /\ RecordedNames(files[iloc.fileId]) # {})
          => iloc.name \in RecordedNames(files[iloc.fileId])
    /\ (/\ ireq.kind \in RefreshKinds /\ ipc = "done" /\ ires.status = 200
        /\ RecordedNames(files[ireq.fileId]) # {})
          => \A k \in 1 .. Len(files[ireq.fileId].sheets) :
                files[ireq.fileId].sheets[k].name \in RecordedNames(files[ireq.fileId])

\* C28: whatever dumps have been uploaded, /api/sql/metadata and
\* /api/sql/import for the file id of an uploaded dump open the stored file
\* that the request which created that file id uploaded.
C28_ReadsOwnUpload ==
    (/\ ireq.kind \in {"sql/metadata", "sql/import"}
     /\ iloc.path # 0
     /\ files[ireq.fileId].source_info.uploaded)
        => disk[iloc.path].fileId = ireq.fileId

\* C29: when an import request is answered with success, every file record
\* it created has a sheet count equal to the number of sheet records created
\* for it and every such sheet has a row count equal to the number of row
\* records inserted for it; the file record of an uploaded dump has sheet
\* count 0 and no sheets.
C29_CountsMatchRecords ==
    /\ \A f \in 1 .. Len(files) :
          files[f].source_info.uploaded
             => files[f].sheet_count = Len(files[f].sheets)
    /\ (ipc = "done" /\ ireq.kind \in ImportKinds /\ ires.status = 200)
          => \A f \in Len(ipre) + 1 .. Len(files) :
                /\ files[f].sheet_count = Len(files[f].sheets)
                /\ \A k \in 1 .. Len(files[f].sheets) :
                      files[f].sheets[k].row_count = Len(files[f].sheets[k].rows)

\* C30: no step of a service-mode getAccessToken call that ends in a failed
\* token request changes the token cache (neither the cached token nor its
\* expiry): the call's start leaves the cache alone and so does the failure;
\* likewise no step of a getUserAccessToken call whose refresh request fails
\* changes the stored connections.
C30_FailedCallLeavesState ==
    [][/\ \A c \in Callers :
             (/\ tpc'[c] # tpc[c]
              /\ \/ tpc'[c] = "waiting"
                 \/ tpc'[c] = "done" /\ ~tres'[c].ok)
                => tokenCache' = tokenCache
       /\ \A p \in Procs :
             (/\ upc'[p] # upc[p]
              /\ ucall'[p].op = "getUserAccessToken"
              /\ \/ upc'[p] \in {"select", "refreshWait"}
                 \/ upc[p] = "refreshWait" /\ upc'[p] = "done" /\ ~ures'[p].ok)
                => conn' = conn
      ]_vars

\* A token request has failed while an expired token was cached, and a
\* refresh request has failed for a user with a stored connection.
C30_Witness ==
    /\ tpc[1] = "done" /\ ~tres[1].ok /\ treq[1] = 1
    /\ tokenCache.accessToken # NULL
    /\ upc[1] = "done" /\ ~ures[1].ok
    /\ ucall[1].op = "getUserAccessToken"
    /\ ures[1].error = "Failed to refresh SharePoint token"
    /\ Single(conn[ucall[1].user]) # NULL

====
